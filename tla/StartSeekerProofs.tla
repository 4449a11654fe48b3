------------------------- MODULE StartSeekerProofs -------------------------
(***************************************************************************)
(* Proofs about StartSeeker, for every input, set of PIDs and limit.       *)
(***************************************************************************)
EXTENDS StartSeeker, SequenceTheorems, TLAPS

Numbers == 0..(MaxInput - 1)

\* The sequence has the first n packets of the input.
WholeSent(s, n) == Len(s) = n /\ \A i \in 1..n : s[i] = i - 1

\* The sequence has the PAT and the packets from the change c up to the n-th.
TailSent(c, s, n) ==
    /\ c # None
    /\ c.first < n
    /\ Len(s) = (n - c.first) + 1
    /\ s[1] = c.pat[1]
    /\ \A i \in 2..Len(s) : s[i] = (c.first + i) - 2

Sent(c, s, n) == WholeSent(s, n) \/ TailSent(c, s, n)

Increasing(s) == \A i \in 1..(Len(s) - 1) : s[i] < s[i + 1]

\* What is kept and sent, by state: while it seeks, the sink has been given nothing
\* and all of the input is kept; after that, nothing is kept.
Kept ==
    /\ run = "up" /\ state = "kSeek" =>
          /\ out = <<>> /\ refused = FALSE /\ transition_index = 0 /\ change = None
          /\ WholeSent(packets, input)
    /\ state = "kStreaming" => packets = <<>> /\ input >= 1
    /\ run = "ended" => packets = <<>>
    /\ run = "aborted" => input >= 1
    /\ run = "aborted" /\ state = "kSeek" =>
          /\ out = <<>> /\ refused = FALSE /\ change = None

\* What the demultiplexer looks at, and where its tables come from: the PMT after
\* the PAT that names it, until a change ends the search.
Searched ==
    /\ change = None =>
          /\ transition_index = 0
          /\ demuxed = {PatPid} \cup ({pmt_pid} \ {NullPid})
          /\ pmt_pid = NullPid => streams = NoStreams /\ partial = -1
          /\ pmt_pid # NullPid =>
                /\ last_pat = <<pat_index, pmt_pid>>
                /\ pat_index < input
                /\ partial # -1 => pat_index < partial /\ partial < input
    /\ change # None =>
          /\ change \in Changes
          /\ demuxed = {}
          /\ pmt_pid = NullPid
          /\ change.first = transition_index
          /\ change.pat = <<pat_index, change.pid>>
          /\ pat_index < transition_index
          /\ transition_index < input
          /\ \E k \in {"video", "audio"} :
                change.old[k] # {} /\ change.old[k] # change.new[k]

\* What has been sent: all of it up to the packet at which the sink ended the
\* input or the service was gone, and in order whatever was refused.
Output ==
    /\ \A i \in 1..Len(out) : out[i] < input
    /\ Increasing(out)
    /\ refused = FALSE =>
          /\ run = "up" /\ state = "kStreaming" => Sent(change, out, input)
          /\ run = "ended" => \/ Sent(change, out, input)
                              \/ input >= 2 /\ Sent(change, out, input - 1)
          /\ run = "aborted" /\ state = "kStreaming" =>
                input >= 2 /\ Sent(change, out, input - 1)

TimeTypes == ticks \in 0..MaxTicks /\ first_pcr \in [PcrPids -> FirstPcrs]

SeekInv == TypeOK /\ TimeTypes /\ Kept /\ Searched /\ Output

-----------------------------------------------------------------------------
(* Sequences of packets. *)

LEMMA Constants ==
    /\ MaxInput \in Nat \ {0} /\ MaxTicks \in Nat /\ MaxPackets \in Nat /\ MaxDuration \in Nat
    /\ PmtPids \cap PcrPids = {} /\ PatPid \notin PmtPids /\ PatPid \notin PcrPids
    /\ NullPid \notin PmtPids /\ NullPid \notin PcrPids
    /\ Unlisted \notin PmtPids /\ PatPid # NullPid
    /\ None \notin Changes /\ FirstPcrs \subseteq Pcrs
  BY SeekerAssumption

\* The first n of a sequence.
LEMMA FirstOf ==
    ASSUME NEW S, NEW s \in Seq(S), NEW n \in 0..Len(s)
    PROVE  /\ SubSeq(s, 1, n) \in Seq(S) /\ Len(SubSeq(s, 1, n)) = n
           /\ \A i \in 1..n : SubSeq(s, 1, n)[i] = s[i]
<1>1. Len(s) \in Nat /\ \A i \in 1..n : s[i] \in S
  BY ElementOfSeq
<1> DEFINE t == SubSeq(s, 1, n)
<1>2. /\ t \in Seq(S) /\ Len(t) = IF 1 <= n THEN n - 1 + 1 ELSE 0
      /\ \A i \in 1..(n - 1 + 1) : t[i] = s[1 + i - 1]
  BY <1>1, SubSeqProperties
<1> HIDE DEF t
<1>3. Len(t) = n
  BY <1>1, <1>2
<1>4. ASSUME NEW i \in 1..n PROVE t[i] = s[i]
  <2>1. i \in 1..(n - 1 + 1) /\ 1 + i - 1 = i
    BY <1>1
  <2> QED
    BY <1>2, <2>1
<1> QED
  BY <1>2, <1>3, <1>4 DEF t

\* A sequence that another starts with.
LEMMA PrefixOf ==
    ASSUME NEW S, NEW s \in Seq(S), NEW t \in Seq(S), Len(s) <= Len(t),
           \A i \in 1..Len(s) : s[i] = t[i]
    PROVE  IsPrefix(s, t)
<1>1. Len(s) \in Nat /\ Len(t) \in Nat
  OBVIOUS
<1>2. Len(s) \in 0..Len(s) /\ Len(s) \in 0..Len(t)
  BY <1>1
<1> DEFINE a == SubSeq(s, 1, Len(s))
           b == SubSeq(t, 1, Len(s))
<1>3. a \in Seq(S) /\ Len(a) = Len(s) /\ \A i \in 1..Len(s) : a[i] = s[i]
  BY <1>2, FirstOf
<1>4. b \in Seq(S) /\ Len(b) = Len(s) /\ \A i \in 1..Len(s) : b[i] = t[i]
  BY <1>2, FirstOf
<1> HIDE DEF a, b
<1>5. a = b
  BY <1>3, <1>4, SeqEqual
<1> QED
  BY <1>5 DEF a, b, IsPrefix

\* The numbers from i up to n.
LEMMA FromNumbers ==
    ASSUME NEW i \in Nat, NEW n \in Nat, i <= n
    PROVE  /\ From(i, n) \in Seq(Nat) /\ Len(From(i, n)) = n - i
           /\ \A k \in 1..(n - i) : From(i, n)[k] = (i + k) - 1
<1>1. n - i \in Nat /\ \A k \in 1..(n - i) : i + k - 1 \in Nat /\ i + k - 1 = (i + k) - 1
  OBVIOUS
<1>2. From(i, n) \in [1..(n - i) -> Nat]
  BY <1>1 DEF From
<1>3. From(i, n) \in Seq(Nat) /\ Len(From(i, n)) = n - i
  BY <1>1, <1>2, IsASeq
<1> QED
  BY <1>1, <1>3 DEF From

LEMMA FromZero ==
    ASSUME NEW n \in Nat
    PROVE  /\ From(0, n) \in Seq(Nat) /\ Len(From(0, n)) = n
           /\ \A k \in 1..n : From(0, n)[k] = k - 1
<1>1. PICK i \in Nat : i = 0
  OBVIOUS
<1>2. i <= n /\ n - i = n
  BY <1>1
<1>3. /\ From(i, n) \in Seq(Nat) /\ Len(From(i, n)) = n - i
      /\ \A k \in 1..(n - i) : From(i, n)[k] = (i + k) - 1
  BY <1>2, FromNumbers
<1>4. \A k \in 1..n : (i + k) - 1 = k - 1
  BY <1>1
<1> QED
  BY <1>1, <1>2, <1>3, <1>4

-----------------------------------------------------------------------------
(* The tables. *)

TableTypes ==
    /\ demuxed \subseteq {PatPid} \cup PmtPids
    /\ partial \in -1..(MaxInput - 1)
    /\ pmt_pid \in PmtPids \cup {NullPid}
    /\ pcr_pid \in PcrPids \cup {NullPid}
    /\ streams \in Streams \cup {NoStreams}
    /\ transition_index \in Numbers
    /\ pat_index \in Numbers

\* What a packet of each kind has.
LEMMA PacketKinds ==
    ASSUME NEW p \in Packets
    PROVE  /\ p.kind = "PAT" => p.pid = PatPid /\ p.pmt_pid \in PmtPids \cup {Unlisted}
           /\ p.kind = "PMTstart" => p.pid \in PmtPids
           /\ p.kind \in {"PMT", "PMTend"} =>
                 /\ p.pid \in PmtPids /\ p.streams \in Streams
                 /\ p.pcr_pid \in PcrPids \cup {NullPid}
           /\ p.kind \in {"PAT", "PMTstart", "PMT", "PMTend", "PCR", "ES"}
           /\ p.kind \in {"PCR", "ES"} => p.pid \in PcrPids
<1>1. CASE p \in [pid : {PatPid}, kind : {"PAT"}, pmt_pid : PmtPids \cup {Unlisted}]
  BY <1>1
<1>2. CASE p \in [pid : PmtPids, kind : {"PMTstart"}]
  BY <1>2
<1>3. CASE p \in [pid : PmtPids, kind : {"PMT", "PMTend"}, pcr_pid : PcrPids \cup {NullPid},
                  streams : Streams]
  BY <1>3
<1>4. CASE p \in [pid : PcrPids, kind : {"PCR", "ES"}]
  BY <1>4
<1> QED
  BY <1>1, <1>2, <1>3, <1>4 DEF Packets

\* A record of a change, and what it has.
LEMMA ChangeFields ==
    ASSUME NEW f \in Numbers, NEW a \in PmtPids, NEW n \in Numbers, NEW m \in PmtPids,
           NEW o \in Streams \cup {NoStreams}, NEW w \in Streams, NEW c,
           c = [first |-> f, pid |-> a, pat |-> <<n, m>>, old |-> o, new |-> w]
    PROVE  /\ c \in Changes /\ c.first = f /\ c.pid = a /\ c.pat = <<n, m>>
           /\ c.old = o /\ c.new = w
  BY DEF Changes, Numbers

\* A packet leaves the tables as Searched says.
LEMMA TablesStep ==
    ASSUME TableTypes, Searched, input \in Nat, input < MaxInput, input' = input + 1,
           NEW p \in Packets, Demux(p)
    PROVE  TableTypes' /\ Searched' /\ (change # None => change' = change)
<1>1. MaxInput \in Nat \ {0} /\ input \in Numbers
  BY Constants DEF Numbers
<1>2. CASE UNCHANGED <<tables, history>>
  <2>1. /\ demuxed' = demuxed /\ partial' = partial /\ pmt_pid' = pmt_pid
        /\ pcr_pid' = pcr_pid /\ streams' = streams
        /\ transition_index' = transition_index /\ pat_index' = pat_index
        /\ last_pat' = last_pat /\ change' = change
    BY <1>2 DEF tables, history
  <2>2. TableTypes'
    BY <2>1 DEF TableTypes
  <2>3. /\ pat_index \in Int /\ partial \in Int /\ transition_index \in Int
    BY <1>1 DEF TableTypes, Numbers
  <2>4. /\ pat_index < input => pat_index' < input'
        /\ partial < input => partial' < input'
        /\ transition_index < input => transition_index' < input'
    BY <2>1, <2>3
  <2>5. Searched'
    BY <2>1, <2>4 DEF Searched
  <2> QED
    BY <2>1, <2>2, <2>5
<1>3. CASE p.pid \in demuxed /\ (HandlePat(p) \/ HandlePmt(p) \/ StartPmt(p))
  <2>1. /\ change = None /\ transition_index = 0
        /\ demuxed = {PatPid} \cup ({pmt_pid} \ {NullPid})
        /\ pmt_pid = NullPid => streams = NoStreams /\ partial = -1
        /\ pmt_pid # NullPid =>
              /\ last_pat = <<pat_index, pmt_pid>>
              /\ pat_index < input
              /\ partial # -1 => pat_index < partial /\ partial < input
    BY <1>3 DEF Searched
  <2>2. /\ pmt_pid \in PmtPids \cup {NullPid} /\ streams \in Streams \cup {NoStreams}
        /\ pcr_pid \in PcrPids \cup {NullPid}
        /\ pat_index \in Numbers /\ partial \in -1..(MaxInput - 1)
    BY DEF TableTypes
  <2>3. input < input' /\ 0 \in Numbers /\ -1 \in -1..(MaxInput - 1)
    BY <1>1 DEF Numbers
  <2>4. CASE HandlePat(p)
    <3>1. p.kind = "PAT" /\ p.pmt_pid \in PmtPids \cup {Unlisted}
      BY <2>4, PacketKinds DEF HandlePat
    <3>2. /\ pcr_pid' = pcr_pid /\ streams' = streams
          /\ transition_index' = transition_index /\ change' = change
      BY <2>4 DEF HandlePat
    <3>3. CASE p.pmt_pid = Unlisted
      <4>1. /\ demuxed' = demuxed /\ partial' = partial /\ pmt_pid' = pmt_pid
            /\ pat_index' = pat_index /\ last_pat' = last_pat
        BY <2>4, <3>3 DEF HandlePat
      <4>2. /\ pat_index < input => pat_index' < input'
            /\ partial < input => partial' < input'
        BY <1>1, <2>2, <4>1 DEF Numbers
      <4>3. TableTypes'
        BY <3>2, <4>1 DEF TableTypes
      <4>4. Searched'
        BY <2>1, <3>2, <4>1, <4>2 DEF Searched
      <4> QED
        BY <3>2, <4>3, <4>4
    <3>4. CASE p.pmt_pid # Unlisted
      <4>1. /\ demuxed' = (demuxed \ {pmt_pid}) \cup {p.pmt_pid} /\ partial' = -1
            /\ pmt_pid' = p.pmt_pid /\ pat_index' = input /\ last_pat' = <<input, p.pmt_pid>>
        BY <2>4, <3>4 DEF HandlePat, Gathered
      <4>2. p.pmt_pid \in PmtPids /\ p.pmt_pid # NullPid
        BY <3>1, <3>4, Constants
      <4>3. demuxed' = {PatPid} \cup ({p.pmt_pid} \ {NullPid})
        BY <2>1, <2>2, <4>1, <4>2, Constants
      <4>4. TableTypes'
        BY <1>1, <2>1, <2>2, <2>3, <3>2, <4>1, <4>2, <4>3 DEF TableTypes
      <4>5. Searched'
        BY <2>1, <2>3, <3>2, <4>1, <4>2, <4>3 DEF Searched
      <4> QED
        BY <3>2, <4>4, <4>5
    <3> QED
      BY <3>3, <3>4
  <2>5. CASE StartPmt(p)
    <3>1. /\ p.kind = "PMTstart" /\ partial' = input /\ demuxed' = demuxed
          /\ pmt_pid' = pmt_pid /\ pcr_pid' = pcr_pid /\ streams' = streams
          /\ transition_index' = transition_index /\ pat_index' = pat_index
          /\ last_pat' = last_pat /\ change' = change
      BY <2>5 DEF StartPmt, history
    <3>2. p.pid \in PmtPids
      BY <3>1, PacketKinds
    <3>3. pmt_pid # NullPid
      BY <1>3, <2>1, <3>2, Constants
    <3>4. input \in -1..(MaxInput - 1) /\ (pat_index < input => pat_index' < input')
      BY <1>1, <2>2, <3>1 DEF Numbers
    <3>5. TableTypes'
      BY <3>1, <3>4 DEF TableTypes
    <3>6. Searched'
      BY <2>1, <2>3, <3>1, <3>3, <3>4 DEF Searched
    <3> QED
      BY <3>1, <3>5, <3>6
  <2>6. CASE HandlePmt(p)
    <3> DEFINE first == IF p.kind = "PMT" THEN input ELSE partial
    <3>1. /\ p.kind = "PMT" \/ (p.kind = "PMTend" /\ partial # -1)
          /\ partial' = -1 /\ pcr_pid' = p.pcr_pid /\ streams' = p.streams
          /\ pat_index' = pat_index /\ last_pat' = last_pat
      BY <2>6 DEF HandlePmt
    <3>2. /\ p.pid \in PmtPids /\ p.streams \in Streams
          /\ p.pcr_pid \in PcrPids \cup {NullPid}
      BY <3>1, PacketKinds
    <3>3. p.pid = pmt_pid /\ pmt_pid # NullPid /\ pmt_pid \in PmtPids
      BY <1>3, <2>1, <3>2, Constants
    <3>4. first = input \/ (first = partial /\ partial # -1)
      BY <3>1
    <3>5. first \in Numbers /\ pat_index < first /\ first <= input
      BY <1>1, <2>1, <2>2, <3>3, <3>4 DEF Numbers
    <3>6. CASE Changed(p.streams)
      <4>1. /\ transition_index' = first /\ demuxed' = demuxed \ {pmt_pid, PatPid}
            /\ pmt_pid' = NullPid
            /\ change' = [first |-> first, pid |-> p.pid, pat |-> last_pat,
                          old |-> streams, new |-> p.streams]
        BY <2>6, <3>6 DEF HandlePmt, TransitionAt
      <4> HIDE DEF first
      <4>2. last_pat = <<pat_index, p.pid>>
        BY <2>1, <3>3
      <4>3. /\ change' \in Changes /\ change'.first = first /\ change'.pid = p.pid
            /\ change'.pat = <<pat_index, p.pid>> /\ change'.old = streams
            /\ change'.new = p.streams
        <5>1. change' = [first |-> first, pid |-> p.pid, pat |-> <<pat_index, p.pid>>,
                         old |-> streams, new |-> p.streams]
          BY <4>1, <4>2
        <5> QED
          BY <2>2, <3>2, <3>5, <5>1, ChangeFields
      <4>4. demuxed' = {}
        BY <2>1, <4>1
      <4>5. change' # None
        BY <4>3, Constants
      <4>6. pat_index' < transition_index' /\ transition_index' < input'
        BY <1>1, <2>2, <3>1, <3>5, <4>1 DEF Numbers
      <4>7. \E k \in {"video", "audio"} :
                change'.old[k] # {} /\ change'.old[k] # change'.new[k]
        BY <3>6, <4>3 DEF Changed
      <4>8. TableTypes'
        BY <2>2, <2>3, <3>1, <3>2, <3>5, <4>1, <4>4 DEF TableTypes
      <4>9. Searched'
        BY <3>1, <4>1, <4>3, <4>4, <4>5, <4>6, <4>7 DEF Searched
      <4> QED
        BY <2>1, <4>8, <4>9
    <3>7. CASE ~ Changed(p.streams)
      <4>1. /\ transition_index' = transition_index /\ demuxed' = demuxed
            /\ pmt_pid' = pmt_pid /\ change' = change
        BY <2>6, <3>7 DEF HandlePmt
      <4>2. pat_index' < input'
        BY <1>1, <2>1, <2>2, <3>1, <3>3 DEF Numbers
      <4>3. TableTypes'
        BY <2>3, <3>1, <3>2, <4>1 DEF TableTypes
      <4>4. Searched'
        BY <2>1, <3>1, <3>3, <4>1, <4>2 DEF Searched
      <4> QED
        BY <4>1, <4>3, <4>4
    <3> QED
      BY <3>6, <3>7
  <2> QED
    BY <1>3, <2>4, <2>5, <2>6
<1> QED
  BY <1>2, <1>3 DEF Demux

-----------------------------------------------------------------------------
(* The packets. *)

\* What is kept after n packets, and the next one.
LEMMA KeptNext ==
    ASSUME NEW s \in Seq(Numbers), NEW n \in Numbers, Len(s) = n,
           \A i \in 1..n : s[i] = i - 1
    PROVE  /\ Append(s, n) \in Seq(Numbers) /\ Len(Append(s, n)) = n + 1
           /\ \A i \in 1..(n + 1) : Append(s, n)[i] = i - 1
<1>1. /\ Append(s, n) \in Seq(Numbers) /\ Len(Append(s, n)) = Len(s) + 1
      /\ \A i \in 1..Len(s) : Append(s, n)[i] = s[i]
      /\ Append(s, n)[Len(s) + 1] = n
  BY AppendProperties
<1>2. n \in Nat
  BY Constants DEF Numbers
<1>3. ASSUME NEW i \in 1..(n + 1) PROVE Append(s, n)[i] = i - 1
  <2>1. i \in 1..n \/ (i = n + 1 /\ i - 1 = n)
    BY <1>2
  <2> QED
    BY <1>1, <2>1
<1> QED
  BY <1>1, <1>3

\* What is sent after a change: the PAT and the rest from the change on.
LEMMA TailOf ==
    ASSUME NEW s \in Seq(Numbers), NEW n \in Nat, Len(s) = n,
           \A i \in 1..n : s[i] = i - 1,
           NEW a \in Nat, NEW b \in Nat, a < b, b < n,
           NEW t, t = <<s[a + 1]>> \o SubSeq(s, b + 1, Len(s))
    PROVE  /\ t \in Seq(Numbers) /\ Len(t) = (n - b) + 1
           /\ t[1] = a
           /\ \A i \in 2..Len(t) : t[i] = (b + i) - 2
<1> DEFINE h == <<s[a + 1]>>
           r == SubSeq(s, b + 1, n)
<1>1. /\ a + 1 \in 1..Len(s) /\ b + 1 \in 1..Len(s) /\ (a + 1) - 1 = a
      /\ n \in Nat
  OBVIOUS
<1>2. \A i \in 1..Len(s) : s[i] \in Numbers
  BY ElementOfSeq
<1>3. s[a + 1] = a /\ a \in Numbers
  BY <1>1, <1>2
<1>4. h \in Seq(Numbers) /\ Len(h) = 1 /\ h[1] = a
  BY <1>3
<1>5. \A i \in (b + 1)..n : s[i] \in Numbers
  BY <1>1, <1>2
<1>6. /\ r \in Seq(Numbers) /\ Len(r) = IF b + 1 <= n THEN n - (b + 1) + 1 ELSE 0
      /\ \A i \in 1..(n - (b + 1) + 1) : r[i] = s[b + 1 + i - 1]
  BY <1>5, SubSeqProperties
<1> HIDE DEF h, r
<1>7. Len(r) = n - b
  BY <1>6
<1>8. ASSUME NEW i \in 1..(n - b) PROVE r[i] = (b + i) - 1
  <2>1. i \in 1..(n - (b + 1) + 1) /\ b + 1 + i - 1 = b + i /\ b + i \in 1..n
    OBVIOUS
  <2>2. r[i] = s[b + i]
    BY <1>6, <2>1
  <2> QED
    BY <2>1, <2>2
<1>9. /\ h \o r \in Seq(Numbers) /\ Len(h \o r) = Len(h) + Len(r)
      /\ \A i \in 1..(Len(h) + Len(r)) :
            (h \o r)[i] = IF i <= Len(h) THEN h[i] ELSE r[i - Len(h)]
  BY <1>4, <1>6, ConcatProperties
<1>10. Len(h \o r) = (n - b) + 1
  BY <1>4, <1>7, <1>9
<1>11. (h \o r)[1] = a
  <2>1. 1 \in 1..(Len(h) + Len(r)) /\ 1 <= Len(h)
    BY <1>4, <1>7
  <2> QED
    BY <1>4, <1>9, <2>1
<1>12. ASSUME NEW i \in 2..Len(h \o r) PROVE (h \o r)[i] = (b + i) - 2
  <2>1. /\ i \in 1..(Len(h) + Len(r)) /\ ~ (i <= Len(h)) /\ i - Len(h) = i - 1
        /\ i - 1 \in 1..(n - b) /\ (b + (i - 1)) - 1 = (b + i) - 2
    BY <1>4, <1>7, <1>10
  <2>2. (h \o r)[i] = r[i - 1]
    BY <1>9, <2>1
  <2> QED
    BY <1>8, <2>1, <2>2
<1> QED
  BY <1>9, <1>10, <1>11, <1>12 DEF h, r

\* The sink has been given nothing, and takes the first of what it is offered.
LEMMA OfferFirst ==
    ASSUME NEW m \in BOOLEAN, NEW s \in Seq(Numbers), out = <<>>, refused = FALSE, Offer(m, s)
    PROVE  /\ out' \in Seq(Numbers) /\ refused' \in BOOLEAN /\ Len(out') <= Len(s)
           /\ \A i \in 1..Len(out') : out'[i] = s[i]
           /\ refused' = FALSE => Len(out') = Len(s) /\ m = FALSE
<1>1. PICK n \in 0..Len(s) : /\ out' = out \o SubSeq(s, 1, n)
                             /\ refused' = (refused \/ m \/ n < Len(s))
  BY DEF Offer
<1>2. /\ SubSeq(s, 1, n) \in Seq(Numbers) /\ Len(SubSeq(s, 1, n)) = n
      /\ \A i \in 1..n : SubSeq(s, 1, n)[i] = s[i]
  BY FirstOf
<1>3. out' = SubSeq(s, 1, n)
  BY <1>1, <1>2, ConcatEmptySeq
<1>4. n < Len(s) \/ m = TRUE => refused' = TRUE
  BY <1>1, Zenon
<1>5. Len(s) \in Nat
  OBVIOUS
<1>6. refused' \in BOOLEAN
  BY <1>1, Zenon
<1>7. refused' = FALSE => n = Len(s) /\ m = FALSE
  BY <1>4, <1>5
<1>8. Len(out') = n /\ n <= Len(s)
  BY <1>2, <1>3, <1>5
<1> QED
  BY <1>2, <1>3, <1>6, <1>7, <1>8

\* It is offered nothing.
LEMMA OfferNone ==
    ASSUME out \in Seq(Numbers), refused \in BOOLEAN, Offer(FALSE, <<>>)
    PROVE  out' = out /\ refused' = refused
<1>1. PICK n \in 0..Len(<<>>) : /\ out' = out \o SubSeq(<<>>, 1, n)
                                /\ refused' = (refused \/ FALSE \/ n < Len(<<>>))
  BY DEF Offer
<1>2. Len(<<>>) = 0 /\ <<>> \in Seq(Numbers)
  OBVIOUS
<1>3. n = 0
  BY <1>1, <1>2
<1>4. /\ SubSeq(<<>>, 1, n) \in Seq(Numbers) /\ Len(SubSeq(<<>>, 1, n)) = n
  BY <1>2, FirstOf
<1>5. SubSeq(<<>>, 1, n) = <<>>
  BY <1>3, <1>4, EmptySeq
<1>6. out' = out
  BY <1>1, <1>5, ConcatEmptySeq
<1>7. ~ (n < Len(<<>>))
  BY <1>2, <1>3
<1>8. refused' = refused
  BY <1>1, <1>7
<1> QED
  BY <1>6, <1>8

\* What is sent is in order and has come.
LEMMA SentInOrder ==
    ASSUME NEW c, NEW s \in Seq(Numbers), NEW n \in Nat, Sent(c, s, n),
           c # None => c \in Changes /\ c.pat[1] < c.first
    PROVE  Increasing(s) /\ \A i \in 1..Len(s) : s[i] < n
<1>1. Len(s) \in Nat
  OBVIOUS
<1>2. CASE WholeSent(s, n)
  BY <1>1, <1>2 DEF WholeSent, Increasing
<1>3. CASE TailSent(c, s, n)
  <2>1. c \in Changes /\ c.pat[1] < c.first
    BY <1>3 DEF TailSent
  <2>2. c.first \in Nat /\ c.pat[1] \in Nat
    BY <2>1, Constants DEF Changes
  <2>3. /\ c.first < n /\ Len(s) = (n - c.first) + 1 /\ s[1] = c.pat[1]
        /\ \A i \in 2..Len(s) : s[i] = (c.first + i) - 2
    BY <1>3 DEF TailSent
  <2>4. ASSUME NEW i \in 1..(Len(s) - 1) PROVE s[i] < s[i + 1]
    <3>1. i + 1 \in 2..Len(s)
      BY <1>1
    <3>2. s[i + 1] = (c.first + (i + 1)) - 2
      BY <2>3, <3>1
    <3>3. CASE i = 1
      BY <2>1, <2>2, <2>3, <3>2, <3>3
    <3>4. CASE i # 1
      <4>1. i \in 2..Len(s)
        BY <1>1, <3>4
      <4>2. s[i] = (c.first + i) - 2
        BY <2>3, <4>1
      <4> QED
        BY <2>2, <3>2, <4>2
    <3> QED
      BY <3>3, <3>4
  <2>5. ASSUME NEW i \in 1..Len(s) PROVE s[i] < n
    <3>1. CASE i = 1
      BY <2>1, <2>2, <2>3, <3>1
    <3>2. CASE i # 1
      <4>1. i \in 2..Len(s)
        BY <1>1, <3>2
      <4>2. s[i] = (c.first + i) - 2
        BY <2>3, <4>1
      <4> QED
        BY <1>1, <2>2, <2>3, <4>2
    <3> QED
      BY <3>1, <3>2
  <2> QED
    BY <2>4, <2>5 DEF Increasing
<1> QED
  BY <1>2, <1>3 DEF Sent

\* The sink takes the first of what is sent, and if it refuses nothing all.
LEMMA TakenInOrder ==
    ASSUME NEW c, NEW s \in Seq(Numbers), NEW t \in Seq(Numbers), NEW n \in Nat,
           Sent(c, s, n), c # None => c \in Changes /\ c.pat[1] < c.first,
           Len(t) <= Len(s), \A i \in 1..Len(t) : t[i] = s[i]
    PROVE  /\ Increasing(t) /\ \A i \in 1..Len(t) : t[i] < n
           /\ Len(t) = Len(s) => Sent(c, t, n)
<1>1. Len(s) \in Nat /\ Len(t) \in Nat
  OBVIOUS
<1>2. Increasing(s) /\ \A i \in 1..Len(s) : s[i] < n
  BY SentInOrder
<1>3. ASSUME NEW i \in 1..(Len(t) - 1) PROVE t[i] < t[i + 1]
  <2>1. i \in 1..Len(t) /\ i + 1 \in 1..Len(t) /\ i \in 1..(Len(s) - 1)
    BY <1>1
  <2> QED
    BY <1>2, <2>1 DEF Increasing
<1>4. \A i \in 1..Len(t) : t[i] < n
  BY <1>1, <1>2
<1>5. Len(t) = Len(s) => s = t
  BY SeqEqual
<1> QED
  BY <1>3, <1>4, <1>5 DEF Increasing

\* A packet given to the sink while it streams.
LEMMA SentNext ==
    ASSUME NEW c, NEW s \in Seq(Numbers), NEW n \in Numbers, Sent(c, s, n),
           c # None => c \in Changes
    PROVE  Append(s, n) \in Seq(Numbers) /\ Sent(c, Append(s, n), n + 1)
<1>1. /\ Append(s, n) \in Seq(Numbers) /\ Len(Append(s, n)) = Len(s) + 1
      /\ \A i \in 1..Len(s) : Append(s, n)[i] = s[i]
      /\ Append(s, n)[Len(s) + 1] = n
  BY AppendProperties
<1>2. n \in Nat /\ Len(s) \in Nat
  BY Constants DEF Numbers
<1>3. CASE WholeSent(s, n)
  BY <1>3, KeptNext DEF WholeSent, Sent
<1>4. CASE TailSent(c, s, n)
  <2> DEFINE t == Append(s, n)
  <2>1. /\ c # None /\ c.first < n /\ Len(s) = (n - c.first) + 1 /\ s[1] = c.pat[1]
        /\ \A i \in 2..Len(s) : s[i] = (c.first + i) - 2
    BY <1>4 DEF TailSent
  <2>2. c.first \in Nat
    BY <2>1, Constants DEF Changes
  <2> HIDE DEF t
  <2>3. Len(t) = ((n + 1) - c.first) + 1 /\ c.first < n + 1
    BY <1>1, <1>2, <2>1, <2>2 DEF t
  <2>4. t[1] = c.pat[1]
    <3>1. 1 \in 1..Len(s)
      BY <1>2, <2>1, <2>2
    <3> QED
      BY <1>1, <2>1, <3>1 DEF t
  <2>5. ASSUME NEW i \in 2..Len(t) PROVE t[i] = (c.first + i) - 2
    <3>1. Len(t) = Len(s) + 1 /\ (c.first + (Len(s) + 1)) - 2 = n
      BY <1>1, <1>2, <2>1, <2>2 DEF t
    <3>2. i \in 2..Len(s) \/ i = Len(s) + 1
      BY <1>2, <3>1
    <3>3. i \in 2..Len(s) => i \in 1..Len(s)
      BY <1>2
    <3> QED
      BY <1>1, <2>1, <3>1, <3>2, <3>3 DEF t
  <2>6. TailSent(c, t, n + 1)
    BY <2>1, <2>3, <2>4, <2>5 DEF TailSent
  <2> QED
    BY <1>1, <2>6 DEF t, Sent
<1> QED
  BY <1>3, <1>4 DEF Sent

-----------------------------------------------------------------------------
(* The invariant. *)

LEMMA SeekInitial == Init => SeekInv
<1> SUFFICES ASSUME Init PROVE SeekInv
  OBVIOUS
<1>1. /\ run = "up" /\ input = 0 /\ state = "kSeek" /\ packets = <<>> /\ demuxed = {PatPid}
      /\ partial = -1 /\ pmt_pid = NullPid /\ pcr_pid = NullPid /\ streams = NoStreams
      /\ end_pcr = -1 /\ transition_index = 0 /\ pat_index = 0 /\ out = <<>>
      /\ refused = FALSE /\ change = None
  BY DEF Init
<1>2. 0 \in 0..MaxInput /\ 0 \in Numbers /\ -1 \in -1..(MaxInput - 1) /\ Len(<<>>) = 0
  BY Constants DEF Numbers
<1>3. <<>> \in Seq(Numbers)
  OBVIOUS
<1>4. TypeOK
  BY <1>1, <1>2, <1>3 DEF TypeOK, Numbers
<1>5. WholeSent(<<>>, 0)
  BY <1>2 DEF WholeSent
<1>6. Kept
  BY <1>1, <1>5 DEF Kept
<1>7. Searched
  BY <1>1 DEF Searched
<1>8. Output
  BY <1>1, <1>2 DEF Output, Increasing
<1>9. TimeTypes
  BY Constants DEF Init, TimeTypes
<1> QED
  BY <1>4, <1>6, <1>7, <1>8, <1>9 DEF SeekInv

\* The sink gets all that is to be sent, and refuses a part of it or nothing.
LEMMA SentAll ==
    ASSUME NEW s \in Seq(Numbers), out = <<>>, refused = FALSE, Offer(FALSE, s),
           NEW c, NEW n \in Nat, Sent(c, s, n),
           c # None => c \in Changes /\ c.pat[1] < c.first
    PROVE  /\ out' \in Seq(Numbers) /\ refused' \in BOOLEAN
           /\ Increasing(out') /\ \A i \in 1..Len(out') : out'[i] < n
           /\ refused' = FALSE => Sent(c, out', n)
<1>1. /\ out' \in Seq(Numbers) /\ refused' \in BOOLEAN /\ Len(out') <= Len(s)
      /\ \A i \in 1..Len(out') : out'[i] = s[i]
      /\ refused' = FALSE => Len(out') = Len(s)
  BY OfferFirst
<1>2. ASSUME NEW t \in Seq(Numbers), Len(t) <= Len(s), \A i \in 1..Len(t) : t[i] = s[i]
      PROVE  /\ Increasing(t) /\ \A i \in 1..Len(t) : t[i] < n
             /\ Len(t) = Len(s) => Sent(c, t, n)
  BY <1>2, TakenInOrder
<1>3. /\ Increasing(out') /\ \A i \in 1..Len(out') : out'[i] < n
      /\ Len(out') = Len(s) => Sent(c, out', n)
  BY <1>1, <1>2
<1> QED
  BY <1>1, <1>3

\* The sink refuses the PAT, and gets the rest from the b-th packet on.
LEMMA SentRest ==
    ASSUME NEW s \in Seq(Numbers), NEW n \in Nat, Len(s) = n,
           \A i \in 1..n : s[i] = i - 1, NEW b \in Nat, b < n,
           out = <<>>, refused = FALSE, Offer(TRUE, SubSeq(s, b + 1, Len(s)))
    PROVE  /\ out' \in Seq(Numbers) /\ refused' = TRUE
           /\ Increasing(out') /\ \A i \in 1..Len(out') : out'[i] < n
<1> DEFINE r == SubSeq(s, b + 1, n)
<1>1. \A i \in (b + 1)..n : s[i] \in Numbers
  BY ElementOfSeq
<1>2. /\ r \in Seq(Numbers) /\ Len(r) = IF b + 1 <= n THEN n - (b + 1) + 1 ELSE 0
      /\ \A i \in 1..(n - (b + 1) + 1) : r[i] = s[b + 1 + i - 1]
  BY <1>1, SubSeqProperties
<1>3. Offer(TRUE, r)
  OBVIOUS
<1> HIDE DEF r
<1>4. Len(r) = n - b
  BY <1>2
<1>5. ASSUME NEW i \in 1..(n - b) PROVE r[i] = (b + i) - 1
  <2>1. i \in 1..(n - (b + 1) + 1) /\ b + 1 + i - 1 = b + i /\ b + i \in 1..n
    OBVIOUS
  <2>2. r[i] = s[b + i]
    BY <1>2, <2>1
  <2> QED
    BY <2>1, <2>2
<1>6. /\ out' \in Seq(Numbers) /\ refused' \in BOOLEAN /\ Len(out') <= Len(r)
      /\ \A i \in 1..Len(out') : out'[i] = r[i]
      /\ refused' = FALSE => TRUE = FALSE
  BY <1>2, <1>3, OfferFirst
<1>7. PICK k \in Nat : k = Len(out') /\ k <= n - b
  BY <1>4, <1>6
<1>8. \A i \in 1..k : out'[i] = (b + i) - 1
  BY <1>5, <1>6, <1>7
<1>9. ASSUME NEW i \in 1..(k - 1) PROVE out'[i] < out'[i + 1]
  <2>1. i \in 1..k /\ i + 1 \in 1..k
    BY <1>7
  <2> QED
    BY <1>8, <2>1
<1>10. ASSUME NEW i \in 1..k PROVE out'[i] < n
  BY <1>7, <1>8
<1> QED
  BY <1>6, <1>7, <1>9, <1>10 DEF Increasing

\* A change does not move what has been sent.
LEMMA SentStays ==
    ASSUME NEW c, NEW d, NEW s, NEW n, Sent(c, s, n), c # None => d = c
    PROVE  Sent(d, s, n)
  BY DEF Sent, TailSent

\* The end of the duration is a PCR.
LEMMA EndPcrType ==
    ASSUME TimeTypes, NEW pid \in PcrPids
    PROVE  EndPcr(pid) \in Pcrs
<1>1. PcrUpperBound \in Nat \ {0} /\ TicksPerMs \in Nat /\ MaxDuration \in Nat
  BY PcrAssumption, Constants
<1>2. ticks \in Int /\ first_pcr[pid] \in Int /\ MaxDuration * TicksPerMs \in Int
  <2>1. ticks \in Int /\ first_pcr[pid] \in FirstPcrs
    BY Constants DEF TimeTypes
  <2>2. FirstPcrs \subseteq Int
    BY <1>1, Constants DEF Pcrs
  <2>3. MaxDuration * TicksPerMs \in Int
    BY <1>1
  <2>4. first_pcr[pid] \in Int
    BY <2>1, <2>2, Zenon
  <2> QED
    BY <2>1, <2>3, <2>4
<1>3. PcrNow(pid) \in Int
  BY <1>1, <1>2 DEF PcrNow
<1> QED
  BY <1>1, <1>2, <1>3 DEF EndPcr, Pcrs

\* A PCR comes on a PID for PCRs.
LEMMA HasPcrPid ==
    ASSUME NEW p \in Packets, HasPcr(p)
    PROVE  p.pid \in PcrPids
  BY PacketKinds DEF HasPcr

LEMMA PacketStep ==
    ASSUME SeekInv, HandlePacket
    PROVE  SeekInv'
<1>1. /\ input \in 0..MaxInput /\ state \in {"kSeek", "kStreaming"}
      /\ packets \in Seq(Numbers) /\ out \in Seq(Numbers) /\ refused \in BOOLEAN
      /\ end_pcr \in Pcrs \cup {-1} /\ TableTypes
  BY DEF SeekInv, TypeOK, TableTypes, Numbers
<1>2. /\ run = "up" /\ input < MaxInput /\ input' = input + 1
  BY DEF HandlePacket
<1>3. /\ input \in Numbers /\ input \in Nat /\ input' \in Nat /\ input' \in 0..MaxInput
      /\ input' >= 1 /\ input' - 1 = input
  BY <1>1, <1>2, Constants DEF Numbers
<1>4. PICK p \in Packets :
          /\ Demux(p)
          /\ IF p.pid \in demuxed /\ p.kind = "PAT" /\ p.pmt_pid = Unlisted
             THEN /\ run' = "aborted"
                  /\ UNCHANGED <<packets, state, seeking, out, refused>>
             ELSE \/ state = "kSeek" /\ Seek(p) /\ run' = "up"
                  \/ state = "kStreaming" /\ DoStreaming
  BY DEF HandlePacket
<1>5. TableTypes' /\ Searched' /\ (change # None => change' = change)
  BY <1>1, <1>2, <1>3, <1>4, TablesStep DEF SeekInv
<1>6. /\ transition_index' \in Numbers /\ pat_index' \in Numbers
      /\ change' # None =>
            /\ change' \in Changes /\ change'.first = transition_index'
            /\ change'.pat[1] = pat_index'
            /\ pat_index' < transition_index' /\ transition_index' < input'
      /\ change' = None => transition_index' = 0
  BY <1>5 DEF TableTypes, Searched
<1>7. change' # None => change' \in Changes /\ change'.pat[1] < change'.first
  BY <1>6
\* What is left to show of the step.
<1>8. ASSUME run' \in {"up", "ended", "aborted"}, state' \in {"kSeek", "kStreaming"},
             packets' \in Seq(Numbers), out' \in Seq(Numbers), refused' \in BOOLEAN,
             end_pcr' \in Pcrs \cup {-1}, Kept', Output'
      PROVE  SeekInv'
  <2>1. TimeTypes'
    BY DEF SeekInv, TimeTypes, HandlePacket
  <2> QED
    BY <1>3, <1>5, <1>8, <2>1 DEF SeekInv, TypeOK, TableTypes, Numbers
<1>9. CASE p.pid \in demuxed /\ p.kind = "PAT" /\ p.pmt_pid = Unlisted
  <2>1. /\ run' = "aborted" /\ packets' = packets /\ state' = state /\ end_pcr' = end_pcr
        /\ out' = out /\ refused' = refused
    BY <1>4, <1>9 DEF seeking
  <2>2. change' = change
    BY <1>4, <1>9 DEF Demux, HandlePat, HandlePmt, StartPmt
  <2>3. Kept'
    BY <1>2, <1>3, <2>1, <2>2 DEF Kept, SeekInv
  <2>4. \A i \in 1..Len(out) : out[i] < input
    BY DEF SeekInv, Output
  <2>5. \A i \in 1..Len(out') : out'[i] < input'
    <3>1. \A i \in 1..Len(out) : out[i] \in Numbers
      BY <1>1, ElementOfSeq
    <3> QED
      BY <1>2, <1>3, <2>1, <2>4, <3>1, Constants DEF Numbers
  <2>6. state = "kStreaming" /\ refused = FALSE => Sent(change, out, input) /\ input >= 1
    BY <1>2 DEF SeekInv, Output, Kept
  <2>7. state = "kStreaming" => input' >= 2
    BY <1>2, <1>3 DEF SeekInv, Kept
  <2>8. Output'
    BY <1>3, <2>1, <2>2, <2>5, <2>6, <2>7 DEF Output, SeekInv
  <2> QED
    BY <1>1, <1>8, <2>1, <2>3, <2>8
<1>10. CASE state = "kStreaming" /\ DoStreaming
  <2>1. /\ packets' = packets /\ state' = state /\ end_pcr' = end_pcr /\ refused' = refused
        /\ \/ run' = "up" /\ out' = Append(out, input)
           \/ run' = "ended" /\ out' = out
    BY <1>10 DEF DoStreaming, seeking
  <2>2. packets = <<>> /\ input >= 1 /\ input' >= 2
    BY <1>3, <1>10, <1>2 DEF SeekInv, Kept
  <2>3. Kept'
    BY <1>3, <1>10, <2>1, <2>2 DEF Kept
  <2>4. refused = FALSE => Sent(change', out, input)
    <3>1. refused = FALSE => Sent(change, out, input)
      BY <1>2, <1>10 DEF SeekInv, Output
    <3>2. ASSUME NEW d, refused = FALSE, change # None => d = change
          PROVE  Sent(d, out, input)
      BY <3>1, <3>2, SentStays
    <3> QED
      BY <1>5, <3>2
  <2>5. Increasing(out) /\ \A i \in 1..Len(out) : out[i] \in Nat /\ out[i] < input
    <3>1. \A i \in 1..Len(out) : out[i] \in Numbers
      BY <1>1, ElementOfSeq
    <3> QED
      BY <3>1, Constants DEF SeekInv, Output, Numbers
  <2>6. CASE run' = "up" /\ out' = Append(out, input)
    <3>1. /\ out' \in Seq(Numbers) /\ Len(out') = Len(out) + 1
          /\ \A i \in 1..Len(out) : out'[i] = out[i]
          /\ out'[Len(out) + 1] = input
      BY <1>1, <1>3, <2>6, AppendProperties
    <3>2. Len(out) \in Nat
      BY <1>1
    <3>3. ASSUME NEW i \in 1..Len(out') PROVE out'[i] < input'
      <4>1. i \in 1..Len(out) \/ i = Len(out) + 1
        BY <3>1, <3>2
      <4>2. out'[i] \in Nat /\ out'[i] <= input
        BY <1>3, <2>5, <3>1, <4>1
      <4> QED
        BY <1>2, <1>3, <4>2
    <3>4. ASSUME NEW i \in 1..(Len(out') - 1) PROVE out'[i] < out'[i + 1]
      <4>1. \/ i \in 1..(Len(out) - 1) /\ i \in 1..Len(out) /\ i + 1 \in 1..Len(out)
            \/ i = Len(out) /\ i \in 1..Len(out)
        BY <3>1, <3>2
      <4>2. CASE i \in 1..(Len(out) - 1) /\ i \in 1..Len(out) /\ i + 1 \in 1..Len(out)
        BY <2>5, <3>1, <4>2 DEF Increasing
      <4>3. CASE i = Len(out) /\ i \in 1..Len(out)
        BY <2>5, <3>1, <4>3
      <4> QED
        BY <4>1, <4>2, <4>3
    <3>5. refused = FALSE => Sent(change', out', input')
      <4>1. ASSUME NEW c, Sent(c, out, input), c # None => c \in Changes
            PROVE  Sent(c, Append(out, input), input + 1)
        BY <1>1, <1>3, <4>1, SentNext
      <4> QED
        BY <1>2, <1>6, <2>4, <2>6, <4>1
    <3>6. Output'
      BY <1>10, <2>1, <2>6, <3>3, <3>4, <3>5 DEF Output, Increasing
    <3> QED
      BY <1>1, <1>8, <1>10, <2>1, <2>3, <2>6, <3>1, <3>6
  <2>7. CASE run' = "ended" /\ out' = out
    <3>1. \A i \in 1..Len(out') : out'[i] < input'
      BY <1>2, <1>3, <2>5, <2>7
    <3>2. refused' = FALSE => input' >= 2 /\ Sent(change', out', input' - 1)
      BY <1>3, <2>1, <2>2, <2>4, <2>7
    <3>3. Output'
      BY <2>5, <2>7, <3>1, <3>2 DEF Output
    <3> QED
      BY <1>1, <1>8, <1>10, <2>1, <2>3, <2>7, <3>3
  <2> QED
    BY <2>1, <2>6, <2>7
<1>11. CASE state = "kSeek" /\ Seek(p) /\ run' = "up"
  <2> DEFINE kept == Append(packets, input)
             tooLong == HasPcr(p) /\ end_pcr # -1 /\ ComparePcr(PcrNow(p.pid), end_pcr) >= 0
             flush == TooMany(kept) \/ tooLong
  <2>1. /\ out = <<>> /\ refused = FALSE /\ WholeSent(packets, input)
    BY <1>2, <1>11 DEF SeekInv, Kept
  <2>2. kept \in Seq(Numbers) /\ WholeSent(kept, input')
    BY <1>1, <1>2, <1>3, <2>1, KeptNext DEF WholeSent
  <2>3. CASE transition_index' > 0 \/ flush
    <3>1. /\ transition_index' > 0 => FromTransition(kept)
          /\ ~ (transition_index' > 0) => Offer(FALSE, kept)
          /\ packets' = <<>> /\ state' = "kStreaming" /\ end_pcr' = end_pcr
      BY <1>11, <2>3 DEF Seek, seeking
    <3> HIDE DEF kept, flush
    <3>3. /\ out' \in Seq(Numbers) /\ refused' \in BOOLEAN
          /\ Increasing(out') /\ \A i \in 1..Len(out') : out'[i] < input'
          /\ refused' = FALSE => Sent(change', out', input')
      <4>1. CASE transition_index' > 0
        <5> DEFINE offered == <<kept[pat_index' + 1]>>
                              \o SubSeq(kept, transition_index' + 1, Len(kept))
        <5>1. change' # None
          BY <1>6, <4>1
        <5>2. /\ change'.first = transition_index' /\ change'.pat[1] = pat_index'
              /\ pat_index' \in Nat /\ transition_index' \in Nat
              /\ pat_index' < transition_index' /\ transition_index' < input'
          BY <1>6, <5>1, Constants DEF Numbers
        <5>3. Len(kept) = input' /\ \A i \in 1..input' : kept[i] = i - 1
          BY <2>2 DEF WholeSent
        <5>4. \/ Offer(FALSE, offered)
              \/ Offer(TRUE, SubSeq(kept, transition_index' + 1, Len(kept)))
          BY <3>1, <4>1 DEF FromTransition
        <5>5. PICK n \in Nat, a \in Nat, b \in Nat :
                 n = input' /\ a = pat_index' /\ b = transition_index'
          BY <1>3, <5>2
        <5>6. /\ a < b /\ b < n /\ Len(kept) = n /\ \A i \in 1..n : kept[i] = i - 1
              /\ offered = <<kept[a + 1]>> \o SubSeq(kept, b + 1, Len(kept))
          BY <5>2, <5>3, <5>5
        <5> HIDE DEF offered
        <5>7. CASE Offer(FALSE, offered)
          <6>1. /\ offered \in Seq(Numbers) /\ Len(offered) = (n - b) + 1
                /\ offered[1] = a
                /\ \A i \in 2..Len(offered) : offered[i] = (b + i) - 2
            BY <2>2, <5>6, TailOf
          <6>2. Sent(change', offered, input')
            BY <5>1, <5>2, <5>5, <6>1 DEF Sent, TailSent
          <6> QED
            BY <1>3, <1>7, <2>1, <5>7, <6>1, <6>2, SentAll
        <5>8. CASE Offer(TRUE, SubSeq(kept, transition_index' + 1, Len(kept)))
          BY <2>1, <2>2, <5>5, <5>6, <5>8, SentRest
        <5> QED
          BY <5>4, <5>7, <5>8
      <4>2. CASE ~ (transition_index' > 0)
        <5>1. Sent(change', kept, input')
          BY <2>2 DEF Sent
        <5> QED
          BY <1>3, <1>7, <2>1, <2>2, <3>1, <4>2, <5>1, SentAll
      <4> QED
        BY <4>1, <4>2
    <3>4. Kept'
      BY <1>3, <1>11, <3>1 DEF Kept
    <3>5. Output'
      BY <1>11, <3>1, <3>3 DEF Output
    <3>6. packets' \in Seq(Numbers)
      BY <3>1
    <3> QED
      BY <1>1, <1>8, <1>11, <3>1, <3>3, <3>4, <3>5, <3>6
  <2>4. CASE ~ (transition_index' > 0 \/ flush)
    <3>1. /\ packets' = kept /\ state' = state /\ out' = out /\ refused' = refused
          /\ end_pcr' = end_pcr \/ (HasPcr(p) /\ end_pcr' = EndPcr(p.pid))
      BY <1>11, <2>4 DEF Seek, seeking
    <3> HIDE DEF kept, flush
    <3>2. change' = None /\ transition_index' = 0
      BY <1>6, <2>4, Constants DEF Numbers
    <3>3. Kept'
      BY <1>11, <2>1, <2>2, <3>1, <3>2 DEF Kept
    <3>4. Output'
      <4>1. Len(out') = 0
        BY <2>1, <3>1
      <4> QED
        BY <1>11, <3>1, <4>1 DEF Output, Increasing
    <3>5. end_pcr' \in Pcrs \cup {-1}
      BY <1>1, <3>1, HasPcrPid, EndPcrType DEF SeekInv
    <3> QED
      BY <1>1, <1>8, <1>11, <2>2, <3>1, <3>3, <3>4, <3>5
  <2> QED
    BY <2>3, <2>4
<1> QED
  BY <1>4, <1>9, <1>10, <1>11

LEMMA EndStep ==
    ASSUME SeekInv, End
    PROVE  SeekInv'
<1>1. /\ input \in 0..MaxInput /\ state \in {"kSeek", "kStreaming"}
      /\ packets \in Seq(Numbers) /\ out \in Seq(Numbers) /\ refused \in BOOLEAN
      /\ input \in Nat
  BY Constants DEF SeekInv, TypeOK, Numbers
<1>2. /\ run = "up" /\ Offer(FALSE, packets) /\ packets' = <<>> /\ run' = "ended"
      /\ input' = input /\ state' = state /\ demuxed' = demuxed /\ partial' = partial
      /\ pmt_pid' = pmt_pid /\ pcr_pid' = pcr_pid /\ streams' = streams
      /\ transition_index' = transition_index /\ pat_index' = pat_index
      /\ end_pcr' = end_pcr /\ ticks' = ticks /\ first_pcr' = first_pcr
      /\ last_pat' = last_pat /\ change' = change
  BY DEF End, Unsent, tables, seeking, time, history
<1>3. Searched' /\ TimeTypes'
  BY <1>2 DEF SeekInv, Searched, TimeTypes
<1>4. Kept'
  BY <1>2 DEF SeekInv, Kept
<1>5. /\ out' \in Seq(Numbers) /\ refused' \in BOOLEAN
      /\ Increasing(out') /\ \A i \in 1..Len(out') : out'[i] < input
      /\ refused' = FALSE => Sent(change, out', input)
  <2>1. CASE state = "kSeek"
    <3>1. out = <<>> /\ refused = FALSE /\ change = None /\ Sent(change, packets, input)
      BY <1>2, <2>1 DEF SeekInv, Kept, Sent
    <3> QED
      BY <1>1, <1>2, <3>1, SentAll
  <2>2. CASE state = "kStreaming"
    <3>1. packets = <<>> /\ (refused = FALSE => Sent(change, out, input))
      BY <1>2, <2>2 DEF SeekInv, Kept, Output
    <3>2. out' = out /\ refused' = refused
      BY <1>1, <1>2, <3>1, OfferNone
    <3> QED
      BY <1>1, <3>1, <3>2 DEF SeekInv, Output
  <2> QED
    BY <1>1, <2>1, <2>2
<1>6. Output'
  BY <1>2, <1>5 DEF Output
<1>7. TypeOK'
  BY <1>2, <1>5 DEF SeekInv, TypeOK, Numbers
<1> QED
  BY <1>3, <1>4, <1>6, <1>7 DEF SeekInv

LEMMA SeekStep == SeekInv /\ [Next]_vars => SeekInv'
<1> SUFFICES ASSUME SeekInv, [Next]_vars PROVE SeekInv'
  OBVIOUS
<1>1. CASE Tick \/ UNCHANGED vars
  <2>1. /\ run' = run /\ input' = input /\ state' = state /\ packets' = packets
        /\ demuxed' = demuxed /\ partial' = partial /\ pmt_pid' = pmt_pid
        /\ pcr_pid' = pcr_pid /\ streams' = streams
        /\ transition_index' = transition_index /\ pat_index' = pat_index
        /\ end_pcr' = end_pcr /\ out' = out /\ refused' = refused
        /\ last_pat' = last_pat /\ change' = change
    BY <1>1 DEF Tick, vars, tables, seeking, time, history
  <2>2. TimeTypes'
    <3>1. ticks \in 0..MaxTicks /\ first_pcr \in [PcrPids -> FirstPcrs]
      BY DEF SeekInv, TimeTypes
    <3>2. first_pcr' = first_pcr /\ (ticks' = ticks \/ (ticks < MaxTicks /\ ticks' = ticks + 1))
      BY <1>1 DEF Tick, vars, time
    <3> QED
      BY <3>1, <3>2, Constants DEF TimeTypes
  <2> QED
    BY <2>1, <2>2 DEF SeekInv, TypeOK, Kept, Searched, Output
<1> QED
  BY <1>1, PacketStep, EndStep DEF Next

\* The invariant says that the output is right.
LEMMA SeekSafe == SeekInv => StartCorrect
<1> SUFFICES ASSUME SeekInv PROVE StartCorrect
  OBVIOUS
<1>1. /\ input \in Nat /\ run \in {"up", "ended", "aborted"} /\ state \in {"kSeek", "kStreaming"}
      /\ packets \in Seq(Numbers) /\ out \in Seq(Numbers) /\ refused \in BOOLEAN
      /\ Len(out) \in Nat
  BY Constants DEF SeekInv, TypeOK, Numbers
<1>2. Seq(Numbers) \subseteq Seq(Nat)
  <2>1. Numbers \subseteq Nat
    BY Constants DEF Numbers
  <2> QED
    BY <2>1, SeqMonotonic
<1>3. /\ change # None =>
            /\ change \in Changes /\ change.first \in Nat /\ change.pat[1] \in Nat
            /\ change.pat[1] < change.first /\ change.pat[2] = change.pid
            /\ \E k \in {"video", "audio"} :
                  change.old[k] # {} /\ change.old[k] # change.new[k]
  <2>1. change # None => change \in Changes
    BY DEF SeekInv, Searched
  <2>2. change # None => change.first \in Nat
    BY <2>1, Constants DEF Changes
  <2>3. /\ pat_index \in Nat
    BY Constants DEF SeekInv, TypeOK
  <2>4. change # None => change.pat[1] = pat_index /\ change.pat[2] = change.pid
    BY DEF SeekInv, Searched
  <2> QED
    BY <2>1, <2>2, <2>3, <2>4 DEF SeekInv, Searched
\* What has been sent, and of how many packets.
<1>4. ASSUME refused = FALSE, ~ (run # "ended" /\ state = "kSeek")
      PROVE  \E n \in Nat : /\ Sent(change, out, n) /\ n <= input
                            /\ n = input \/ (run # "up" /\ n >= 1 /\ n = input - 1)
  <2>1. \/ Sent(change, out, input)
        \/ run # "up" /\ input >= 2 /\ Sent(change, out, input - 1)
    BY <1>1, <1>4 DEF SeekInv, Output
  <2>2. input >= 2 => input - 1 \in Nat /\ input - 1 <= input /\ input - 1 >= 1
    BY <1>1
  <2> QED
    BY <1>1, <2>1, <2>2
\* The whole of the input starts with what has been sent of it.
<1>5. ASSUME NEW s \in Seq(Numbers), NEW n \in Nat, n <= input, WholeSent(s, n)
      PROVE  IsPrefix(s, From(0, input)) /\ s = From(0, n)
  <2>1. /\ From(0, input) \in Seq(Nat) /\ Len(From(0, input)) = input
        /\ \A k \in 1..input : From(0, input)[k] = k - 1
    BY <1>1, FromZero
  <2>2. /\ From(0, n) \in Seq(Nat) /\ Len(From(0, n)) = n
        /\ \A k \in 1..n : From(0, n)[k] = k - 1
    BY FromZero
  <2>3. s \in Seq(Nat) /\ Len(s) = n /\ \A i \in 1..n : s[i] = i - 1
    BY <1>2, <1>5 DEF WholeSent
  <2>4. Len(s) <= Len(From(0, input)) /\ \A i \in 1..Len(s) : s[i] = From(0, input)[i]
    <3>1. \A i \in 1..n : i \in 1..input
      BY <1>1, <1>5
    <3> QED
      BY <1>1, <1>5, <2>1, <2>3, <3>1
  <2>5. Len(s) = Len(From(0, n)) /\ \A i \in 1..Len(s) : s[i] = From(0, n)[i]
    BY <2>2, <2>3
  <2>6. IsPrefix(s, From(0, input))
    BY <2>1, <2>3, <2>4, PrefixOf
  <2>7. s = From(0, n)
    BY <2>2, <2>3, <2>5, SeqEqual
  <2> QED
    BY <2>6, <2>7
\* So does the input from the change on.
<1>6. ASSUME NEW n \in Nat, n <= input, TailSent(change, out, n)
      PROVE  IsPrefix(out, <<change.pat[1]>> \o From(change.first, input))
  <2>1. PICK f \in Nat, a \in Nat : f = change.first /\ a = change.pat[1]
    BY <1>3, <1>6 DEF TailSent
  <2>2. /\ f < n /\ Len(out) = (n - f) + 1 /\ out[1] = a
        /\ \A i \in 2..Len(out) : out[i] = (f + i) - 2
    BY <1>6, <2>1 DEF TailSent
  <2> DEFINE h == <<a>>
             r == From(f, input)
             t == h \o r
  <2>3. f <= input
    BY <1>1, <1>6, <2>2
  <2>4. r \in Seq(Nat) /\ Len(r) = input - f /\ \A k \in 1..(input - f) : r[k] = (f + k) - 1
    BY <1>1, <2>3, FromNumbers
  <2>5. h \in Seq(Nat) /\ Len(h) = 1 /\ h[1] = a
    OBVIOUS
  <2> HIDE DEF h, r
  <2>6. /\ t \in Seq(Nat) /\ Len(t) = Len(h) + Len(r)
        /\ \A i \in 1..(Len(h) + Len(r)) : t[i] = IF i <= Len(h) THEN h[i] ELSE r[i - Len(h)]
    BY <2>4, <2>5, ConcatProperties
  <2> HIDE DEF t
  <2>7. Len(out) <= Len(t)
    BY <1>1, <1>6, <2>2, <2>4, <2>5, <2>6
  <2>8. ASSUME NEW i \in 1..Len(out) PROVE out[i] = t[i]
    <3>1. i \in 1..(Len(h) + Len(r))
      BY <1>1, <2>6, <2>7, <2>4, <2>5
    <3>2. CASE i = 1
      BY <2>2, <2>5, <2>6, <3>1, <3>2
    <3>3. CASE i # 1
      <4>1. /\ i \in 2..Len(out) /\ ~ (i <= Len(h)) /\ i - Len(h) = i - 1
            /\ i - 1 \in 1..(input - f) /\ (f + (i - 1)) - 1 = (f + i) - 2
        BY <1>1, <2>4, <2>5, <3>1, <3>3
      <4>2. t[i] = r[i - 1]
        BY <2>6, <3>1, <4>1
      <4> QED
        BY <2>2, <2>4, <4>1, <4>2
    <3> QED
      BY <3>2, <3>3
  <2>9. out \in Seq(Nat)
    BY <1>1, <1>2
  <2> QED
    BY <2>1, <2>6, <2>7, <2>8, <2>9, PrefixOf DEF t, h, r
<1>7. OutputFromStart
  <2> SUFFICES ASSUME run # "aborted", refused = FALSE
               PROVE  \/ IsPrefix(out \o packets, From(0, input))
                      \/ /\ change # None
                         /\ IsPrefix(out, <<change.pat[1]>> \o From(change.first, input))
                         /\ change.pat[1] < change.first
                         /\ change.pat[2] = change.pid
    BY <1>1 DEF OutputFromStart
  <2>1. CASE run = "up" /\ state = "kSeek"
    <3>1. out = <<>> /\ WholeSent(packets, input)
      BY <2>1 DEF SeekInv, Kept
    <3>2. out \o packets = packets
      BY <1>1, <3>1, ConcatEmptySeq
    <3>3. IsPrefix(packets, From(0, input))
      BY <1>1, <1>5, <3>1
    <3> QED
      BY <3>2, <3>3
  <2>2. CASE ~ (run = "up" /\ state = "kSeek")
    <3>1. PICK n \in Nat : Sent(change, out, n) /\ n <= input
      BY <1>1, <1>4, <2>2
    <3>2. packets = <<>>
      BY <1>1, <2>2 DEF SeekInv, Kept
    <3>3. out \o packets = out
      BY <1>1, <3>2, ConcatEmptySeq
    <3>4. CASE WholeSent(out, n)
      BY <1>1, <1>5, <3>1, <3>3, <3>4
    <3>5. CASE TailSent(change, out, n)
      BY <1>3, <1>6, <3>1, <3>5 DEF TailSent
    <3> QED
      BY <3>1, <3>4, <3>5 DEF Sent
  <2> QED
    BY <2>1, <2>2
<1>8. OutputInOrder
  BY DEF SeekInv, Output, Increasing, OutputInOrder
<1>9. AllSentAtEnd
  <2> SUFFICES ASSUME run = "ended", refused = FALSE
               PROVE  packets = <<>> /\ (input = 0 \/ (out # <<>> /\ Last(out) >= input - 2))
    BY <1>1 DEF AllSentAtEnd
  <2>1. packets = <<>>
    BY DEF SeekInv, Kept
  <2>2. PICK n \in Nat : /\ Sent(change, out, n) /\ n <= input
                         /\ n = input \/ (n >= 1 /\ n = input - 1)
    BY <1>4
  <2>3. ASSUME input # 0 PROVE Len(out) >= 1 /\ out[Len(out)] = n - 1
    <3>1. n >= 1
      BY <1>1, <2>2, <2>3
    <3>2. CASE WholeSent(out, n)
      BY <3>1, <3>2 DEF WholeSent
    <3>3. CASE TailSent(change, out, n)
      <4>1. PICK f \in Nat : f = change.first
        BY <1>3, <3>3 DEF TailSent
      <4>2. /\ f < n /\ Len(out) = (n - f) + 1
            /\ \A i \in 2..Len(out) : out[i] = (f + i) - 2
        BY <3>3, <4>1 DEF TailSent
      <4>3. Len(out) \in 2..Len(out) /\ (f + Len(out)) - 2 = n - 1
        BY <4>2
      <4> QED
        BY <4>2, <4>3
    <3> QED
      BY <2>2, <3>2, <3>3 DEF Sent
  <2>4. Len(out) >= 1 => out # <<>>
    BY <1>1
  <2>5. n - 1 >= input - 2
    BY <1>1, <2>2
  <2>6. Last(out) = out[Len(out)]
    BY DEF Last
  <2> QED
    BY <2>1, <2>3, <2>4, <2>5, <2>6
<1>10. OnlyChangesSkip
  <2> SUFFICES ASSUME refused = FALSE, out # <<>>, out # From(0, Len(out))
               PROVE  /\ change # None
                      /\ \E k \in {"video", "audio"} :
                            change.old[k] # {} /\ change.old[k] # change.new[k]
    BY <1>1 DEF OnlyChangesSkip
  <2>1. ~ (run # "ended" /\ state = "kSeek")
    BY <1>1 DEF SeekInv, Kept
  <2>2. PICK n \in Nat : Sent(change, out, n) /\ n <= input
    BY <1>4, <2>1
  <2>3. ~ WholeSent(out, n)
    <3>1. ASSUME WholeSent(out, n) PROVE FALSE
      <4>1. Len(out) = n
        BY <3>1 DEF WholeSent
      <4> QED
        BY <1>1, <1>5, <2>2, <3>1, <4>1
    <3> QED
      BY <3>1
  <2> QED
    BY <1>3, <2>2, <2>3 DEF Sent, TailSent
<1> QED
  BY <1>7, <1>8, <1>9, <1>10 DEF StartCorrect

\* The variables stay in range, for every input and limit (HandlePacket, End).
THEOREM SeekerTypes == Spec => []TypeOK
<1>1. SeekInv => TypeOK
  BY DEF SeekInv
<1> QED
  BY <1>1, SeekInitial, SeekStep, PTL DEF Spec

\* For every stream of PATs and PMTs, in one packet or several, every limit and
\* wherever the sink refuses a packet: the output starts with the input or with
\* the PAT and the first packet of the PMT that changed the streams, has each
\* packet once and in order and, if none was refused, all of them at the end
\* (HandlePat, HandlePmt, Seek, DoStreaming, End).
THEOREM StartAlwaysCorrect == Spec => []StartCorrect
<1> QED
  BY SeekInitial, SeekStep, SeekSafe, PTL DEF Spec

-----------------------------------------------------------------------------
(* The limits. *)

Limit == MaxDuration * TicksPerMs

EndAt(from) == (((origin + from) % PcrUpperBound) + Limit) % PcrUpperBound

\* What the limits rest on: the end of the duration is that of the PCR seeking
\* started with, and no PCR has come that is later.
Timed ==
    /\ SeekBounded
    /\ pcr_at \in -1..ticks
    /\ seek_from = -1 => end_pcr = -1
    /\ seek_from # -1 => /\ seek_from \in 0..ticks /\ seek_from <= pcr_at
                         /\ origin \in FirstPcrs /\ end_pcr = EndAt(seek_from)

\* The PCRs do not wrap around between the end of the duration and the end of the
\* input, and are less than half a period apart.
EndInPeriod ==
    \A f \in FirstPcrs, s \in 0..MaxTicks, t \in 0..MaxTicks :
        s + Limit <= t =>
            /\ ((f + s) + Limit) \div PcrUpperBound = (f + t) \div PcrUpperBound
            /\ 2 * ((t - s) - Limit) < PcrUpperBound

\* A quotient and its remainder.
LEMMA Quotient ==
    ASSUME NEW x \in Nat, NEW b \in Nat \ {0}
    PROVE  /\ x \div b \in Nat /\ x % b \in 0..(b - 1) /\ (x \div b) * b \in Nat
           /\ x = (x \div b) * b + (x % b)
  OBVIOUS

\* There is one.
LEMMA OneQuotient ==
    ASSUME NEW b \in Nat \ {0}, NEW q \in Int, NEW k \in Int,
           NEW r \in 0..(b - 1), NEW u \in 0..(b - 1), q * b + r = k * b + u
    PROVE  r = u
<1>1. q * b \in Int /\ k * b \in Int /\ (q - k) * b = q * b - k * b
  OBVIOUS
<1>2. CASE q = k
  BY <1>1, <1>2
<1>3. CASE q > k
  <2>1. (q - k) * b >= b
    BY <1>3
  <2> QED
    BY <1>1, <2>1
<1>4. CASE q < k
  <2>1. (k - q) * b >= b /\ (k - q) * b = k * b - q * b
    BY <1>4
  <2> QED
    BY <1>1, <2>1
<1> QED
  BY <1>2, <1>3, <1>4

\* Reducing before an addition does not matter.
LEMMA ReducedSum ==
    ASSUME NEW x \in Nat, NEW d \in Nat, NEW b \in Nat \ {0}
    PROVE  ((x % b) + d) % b = (x + d) % b
<1> DEFINE y == (x % b) + d
           z == x + d
<1>1. x \div b \in Nat /\ x % b \in 0..(b - 1) /\ x = (x \div b) * b + (x % b)
  BY Quotient
<1>2. y \in Nat /\ z \in Nat /\ z = (x \div b) * b + y
  BY <1>1
<1> HIDE DEF y, z
<1>3. y \div b \in Nat /\ y % b \in 0..(b - 1) /\ y = (y \div b) * b + (y % b)
  BY <1>2, Quotient
<1>4. z \div b \in Nat /\ z % b \in 0..(b - 1) /\ z = (z \div b) * b + (z % b)
  BY <1>2, Quotient
<1>5. PICK q \in Nat, k \in Nat, m \in Nat :
         q = z \div b /\ k = x \div b /\ m = y \div b
  BY <1>1, <1>3, <1>4, Zenon
<1>6. (k + m) * b = k * b + m * b /\ k + m \in Int
  OBVIOUS
<1>7. PICK r \in 0..(b - 1), u \in 0..(b - 1) : r = z % b /\ u = y % b
  BY <1>3, <1>4
<1>8. q * b + r = (k + m) * b + u
  BY <1>2, <1>3, <1>4, <1>5, <1>6, <1>7
<1>9. r = u
  BY <1>6, <1>8, OneQuotient
<1> QED
  BY <1>7, <1>9 DEF y, z

\* A PCR at or after the end of the duration is not before it.
LEMMA EndSeen ==
    ASSUME EndInPeriod, NEW f \in FirstPcrs, NEW s \in 0..MaxTicks, NEW t \in 0..MaxTicks,
           s + Limit <= t
    PROVE  ComparePcr((f + t) % PcrUpperBound,
                      (((f + s) % PcrUpperBound) + Limit) % PcrUpperBound) >= 0
<1> DEFINE b == PcrUpperBound
           x == f + t
           y == (f + s) + Limit
<1>1. /\ b \in Nat \ {0} /\ f \in Nat /\ s \in Nat /\ t \in Nat /\ Limit \in Nat
  BY PcrAssumption, Constants DEF Limit, Pcrs
<1>2. x \in Nat /\ y \in Nat /\ x - y = (t - s) - Limit /\ f + s \in Nat
  BY <1>1
<1>3. y \div b = x \div b /\ 2 * ((t - s) - Limit) < b
  BY DEF EndInPeriod
<1>4. (((f + s) % b) + Limit) % b = y % b
  BY <1>1, <1>2, ReducedSum
<1> HIDE DEF b, x, y
<1>5. /\ x \div b \in Nat /\ x % b \in 0..(b - 1) /\ (x \div b) * b \in Nat
      /\ x = (x \div b) * b + (x % b)
  BY <1>1, <1>2, Quotient
<1>6. /\ y % b \in 0..(b - 1) /\ y = (y \div b) * b + (y % b)
  BY <1>1, <1>2, Quotient
<1>7. PICK m \in Nat, u \in 0..(b - 1), v \in 0..(b - 1) :
         m = (x \div b) * b /\ u = x % b /\ v = y % b
  BY <1>5, <1>6
<1>8. x = m + u /\ y = m + v
  BY <1>3, <1>5, <1>6, <1>7
<1>9. u - v = (t - s) - Limit
  <2>1. u \in Int /\ v \in Int /\ t - s \in Int /\ Limit \in Int
    BY <1>1
  <2>2. (m + u) - (m + v) = (t - s) - Limit
    BY <1>2, <1>8
  <2> QED
    BY <2>1, <2>2
<1>10. u - v >= 0 /\ 2 * (u - v) < b
  BY <1>1, <1>3, <1>9
<1>11. ComparePcr(u, v) >= 0
  BY <1>1, <1>7, <1>10 DEF ComparePcr, Abs, b
<1> QED
  BY <1>4, <1>7, <1>11 DEF b, x, y

LEMMA TimedInitial == Init => Timed
<1> SUFFICES ASSUME Init PROVE Timed
  OBVIOUS
<1>1. /\ packets = <<>> /\ seek_from = -1 /\ pcr_at = -1 /\ end_pcr = -1 /\ ticks = 0
  BY DEF Init
<1>2. MaxPackets # 0 => Len(packets) < MaxPackets
  BY <1>1, Constants
<1> QED
  BY <1>1, <1>2 DEF Timed, SeekBounded

LEMMA TimedStep ==
    ASSUME EndInPeriod, SeekInv, Timed, [Next]_vars
    PROVE  Timed'
<1>1. /\ ticks \in 0..MaxTicks /\ first_pcr \in [PcrPids -> FirstPcrs] /\ end_pcr \in Pcrs \cup {-1}
      /\ packets \in Seq(Numbers) /\ MaxTicks \in Nat /\ input \in Numbers \cup {MaxInput}
      /\ state \in {"kSeek", "kStreaming"}
  BY Constants DEF SeekInv, TimeTypes, TypeOK, Numbers
<1>2. /\ ticks \in Nat /\ pcr_at \in Int /\ -1 <= pcr_at /\ pcr_at <= ticks
      /\ seek_from = -1 => end_pcr = -1
      /\ seek_from # -1 => /\ seek_from \in 0..ticks /\ seek_from <= pcr_at
                           /\ origin \in FirstPcrs /\ end_pcr = EndAt(seek_from)
  BY <1>1 DEF Timed
\* A step that leaves the duration alone and keeps the bound.
<1>3. ASSUME seek_from' = seek_from, end_pcr' = end_pcr, origin' = origin,
             pcr_at' \in {pcr_at, ticks}, ticks' \in {ticks, ticks + 1}, SeekBounded'
      PROVE  Timed'
  <2>1. ticks' \in Nat /\ ticks <= ticks'
    BY <1>2, <1>3
  <2>2. pcr_at' \in Int /\ -1 <= pcr_at' /\ pcr_at' <= ticks /\ pcr_at <= pcr_at'
    BY <1>2, <1>3
  <2>3. pcr_at' \in -1..ticks'
    BY <1>2, <2>1, <2>2
  <2>4. seek_from # -1 => seek_from \in 0..ticks' /\ seek_from <= pcr_at'
    BY <1>2, <2>1, <2>2
  <2>5. seek_from # -1 => end_pcr' = EndAt(seek_from)'
    BY <1>2, <1>3 DEF EndAt
  <2> QED
    BY <1>2, <1>3, <2>3, <2>4, <2>5 DEF Timed
<1>4. CASE HandlePacket
  <2>1. run = "up" /\ ticks' = ticks /\ first_pcr' = first_pcr /\ input < MaxInput
    BY <1>4 DEF HandlePacket
  <2>2. PICK p \in Packets :
          /\ IF p.pid \in demuxed /\ p.kind = "PAT" /\ p.pmt_pid = Unlisted
             THEN /\ run' = "aborted"
                  /\ UNCHANGED <<packets, state, seeking, out, refused>>
             ELSE \/ state = "kSeek" /\ Seek(p) /\ run' = "up"
                  \/ state = "kStreaming" /\ DoStreaming
          /\ pcr_at' = IF HasPcr(p) /\ first_pcr[p.pid] = origin' THEN ticks ELSE pcr_at
    BY <1>4 DEF HandlePacket
  <2>3. pcr_at' \in {pcr_at, ticks}
    BY <2>2
  <2>4. CASE p.pid \in demuxed /\ p.kind = "PAT" /\ p.pmt_pid = Unlisted
    <3>1. /\ run' = "aborted" /\ end_pcr' = end_pcr /\ seek_from' = seek_from
          /\ origin' = origin
      BY <2>2, <2>4 DEF seeking
    <3>2. SeekBounded'
      BY <3>1 DEF SeekBounded
    <3> QED
      BY <1>3, <2>1, <2>3, <3>1, <3>2
  <2>5. CASE state = "kStreaming" /\ DoStreaming
    <3>1. /\ state' = "kStreaming" /\ end_pcr' = end_pcr /\ seek_from' = seek_from
          /\ origin' = origin
      BY <2>5 DEF DoStreaming, seeking
    <3>2. SeekBounded'
      BY <3>1 DEF SeekBounded
    <3> QED
      BY <1>3, <2>1, <2>3, <3>1, <3>2
  <2>6. CASE state = "kSeek" /\ Seek(p) /\ run' = "up"
    <3> DEFINE kept == Append(packets, input)
               tooLong == HasPcr(p) /\ end_pcr # -1 /\ ComparePcr(PcrNow(p.pid), end_pcr) >= 0
               flush == TooMany(kept) \/ tooLong
    <3>1. CASE transition_index' > 0 \/ flush
      <4>1. /\ state' = "kStreaming" /\ end_pcr' = end_pcr /\ seek_from' = seek_from
            /\ origin' = origin
        BY <2>6, <3>1 DEF Seek, seeking
      <4>2. SeekBounded'
        BY <4>1 DEF SeekBounded
      <4> QED
        BY <1>3, <2>1, <2>3, <4>1, <4>2
    <3>2. CASE ~ (transition_index' > 0 \/ flush)
      <4>1. /\ packets' = kept /\ state' = "kSeek"
            /\ HasPcr(p) /\ end_pcr = -1 => /\ end_pcr' = EndPcr(p.pid) /\ seek_from' = ticks
                                            /\ origin' = first_pcr[p.pid]
            /\ ~ (HasPcr(p) /\ end_pcr = -1) => /\ end_pcr' = end_pcr
                                                /\ seek_from' = seek_from
                                                /\ origin' = origin
        BY <2>6, <3>2 DEF Seek, seeking
      <4>2. MaxPackets # 0 => Len(packets') < MaxPackets
        <5>1. MaxPackets # 0 => Len(packets) < MaxPackets
          BY <2>1, <2>6 DEF Timed, SeekBounded
        <5>2. MaxPackets # 0 => Len(kept) # MaxPackets
          BY <3>2 DEF TooMany
        <5>3. Len(kept) = Len(packets) + 1 /\ Len(packets) \in Nat
          <6>1. input \in Numbers
            BY <1>1, <2>1, Constants
          <6> QED
            BY <1>1, <6>1, AppendProperties
        <5> QED
          BY <4>1, <5>1, <5>2, <5>3, Constants
      <4>3. CASE HasPcr(p) /\ end_pcr = -1
        <5>1. /\ end_pcr' = EndPcr(p.pid) /\ seek_from' = ticks /\ pcr_at' = ticks
              /\ origin' = first_pcr[p.pid]
          BY <2>2, <4>1, <4>3
        <5>2. origin' \in FirstPcrs
          BY <1>1, <4>3, <5>1, HasPcrPid
        <5>3. end_pcr' = EndAt(seek_from)'
          BY <5>1 DEF EndPcr, EndAt, PcrNow, Limit
        <5>4. SeekBounded'
          BY <4>2, <5>1 DEF SeekBounded
        <5> QED
          BY <1>2, <2>1, <5>1, <5>2, <5>3, <5>4 DEF Timed
      <4>4. CASE ~ (HasPcr(p) /\ end_pcr = -1)
        <5>1. end_pcr' = end_pcr /\ seek_from' = seek_from /\ origin' = origin
          BY <4>1, <4>4
        <5>2. seek_from # -1 => \/ pcr_at' = seek_from
                                \/ pcr_at' - seek_from < Limit
          <6>1. seek_from # -1 => \/ pcr_at = seek_from
                                  \/ pcr_at - seek_from < Limit
            BY <2>1, <2>6 DEF Timed, SeekBounded, Limit
          <6>2. CASE ~ (HasPcr(p) /\ first_pcr[p.pid] = origin)
            BY <2>2, <5>1, <6>1, <6>2
          <6>3. CASE HasPcr(p) /\ first_pcr[p.pid] = origin /\ seek_from # -1
            <7>1. pcr_at' = ticks
              BY <2>2, <5>1, <6>3
            <7>2. /\ seek_from \in 0..ticks /\ seek_from \in 0..MaxTicks
                  /\ end_pcr = EndAt(seek_from) /\ Limit \in Int /\ origin \in FirstPcrs
              BY <1>1, <1>2, <6>3, PcrAssumption, Constants DEF Limit
            <7>3. ~ (ComparePcr(PcrNow(p.pid), end_pcr) >= 0)
              BY <3>2, <4>4, <6>3
            <7>4. ASSUME seek_from + Limit <= ticks PROVE FALSE
              <8>1. ComparePcr((origin + ticks) % PcrUpperBound,
                      (((origin + seek_from) % PcrUpperBound) + Limit) % PcrUpperBound) >= 0
                BY <1>1, <7>2, <7>4, EndSeen
              <8> QED
                BY <6>3, <7>2, <7>3, <8>1 DEF PcrNow, EndAt
            <7> QED
              BY <1>2, <7>1, <7>2, <7>4
          <6> QED
            BY <6>2, <6>3
        <5>3. SeekBounded'
          BY <4>2, <5>1, <5>2 DEF SeekBounded, Limit
        <5> QED
          BY <1>3, <2>1, <2>3, <5>1, <5>3
      <4> QED
        BY <4>3, <4>4
    <3> QED
      BY <3>1, <3>2
  <2> QED
    BY <2>2, <2>4, <2>5, <2>6
<1>5. CASE End
  <2>1. /\ run' = "ended" /\ end_pcr' = end_pcr /\ seek_from' = seek_from /\ pcr_at' = pcr_at
        /\ ticks' = ticks /\ origin' = origin
    BY <1>5 DEF End, time, seeking
  <2>2. SeekBounded'
    BY <2>1 DEF SeekBounded
  <2> QED
    BY <1>3, <2>1, <2>2
<1>6. CASE Tick \/ UNCHANGED vars
  <2>1. /\ run' = run /\ state' = state /\ packets' = packets
        /\ end_pcr' = end_pcr /\ seek_from' = seek_from /\ pcr_at' = pcr_at
        /\ ticks' \in {ticks, ticks + 1} /\ origin' = origin
    BY <1>6 DEF Tick, vars, time, seeking
  <2>2. SeekBounded'
    BY <2>1 DEF SeekBounded, Timed
  <2> QED
    BY <1>3, <2>1, <2>2
<1> QED
  BY <1>4, <1>5, <1>6 DEF Next

\* For every limit and input, as long as the PCRs do not wrap around after the end
\* of the duration: a sink that seeks keeps fewer packets than the limit on them,
\* and has seen no PCR at or after the end of the duration (Seek).  What the
\* hypothesis leaves out, an end just before the PCRs wrap around, is passed
\* unnoticed by ComparePcr.
THEOREM SeekAlwaysBounded ==
    ASSUME EndInPeriod
    PROVE  Spec => []SeekBounded
<1> DEFINE Inv == SeekInv /\ Timed
<1>1. Init => Inv
  BY SeekInitial, TimedInitial
<1>2. Inv /\ [Next]_vars => Inv'
  BY SeekStep, TimedStep
<1>3. Inv => SeekBounded
  BY DEF Timed
<1> QED
  BY <1>1, <1>2, <1>3, PTL DEF Spec

=============================================================================
