----------------------- MODULE ServiceRecorderProofs -----------------------
(***************************************************************************)
(* Proofs about ServiceRecorder, for every layout of the ring, every set   *)
(* of PIDs, programs and times, and behaviours of any length: the messages *)
(* are paired, seamless and in sequence.                                   *)
(***************************************************************************)
EXTENDS ServiceRecorder, TLAPS

-----------------------------------------------------------------------------
(* The layout of the ring, as far as the boundaries go. *)

\* A product of naturals is a natural, and grows with its first factor.
LEMMA Products ==
    ASSUME NEW a \in Nat, NEW b \in Nat, NEW c \in Nat, a <= b
    PROVE  a * c \in Nat /\ b * c \in Nat /\ a * c <= b * c
<1>1. a * c \in Nat /\ b * c \in Nat
  BY SMT
<1>2. (b - a) * c >= 0
  BY SMT
<1>3. (b - a) * c = b * c - a * c
  BY SMT
<1> QED
  BY <1>1, <1>2, <1>3

\* Chunks and rings are not empty, and hold whole buffers and chunks.
LEMMA Sizes ==
    /\ BufferSize \in Nat \ {0}
    /\ PktSize \in Nat \ {0} /\ PktSize <= BufferSize
    /\ ChunkSize \in Nat \ {0} /\ BufferSize <= ChunkSize
    /\ RingSize \in Nat \ {0} /\ ChunkSize <= RingSize
<1>1. BufferSize \in Nat \ {0} /\ PktSize \in Nat \ {0} /\ PktSize <= BufferSize
  BY LayoutAssumption
<1>2. ChunkSize \in Nat /\ 1 * BufferSize <= ChunkSize
  BY LayoutAssumption, Products DEF ChunkSize
<1>3. ChunkSize \in Nat \ {0} /\ BufferSize <= ChunkSize
  BY <1>1, <1>2
<1>4. RingSize \in Nat /\ 1 * ChunkSize <= RingSize
  BY <1>3, LayoutAssumption, Products DEF RingSize
<1> QED
  BY <1>1, <1>3, <1>4

\* A chunk lies in the ring, and the next one starts where it ends.
LEMMA BoundaryStep ==
    ASSUME NEW b \in Boundaries
    PROVE  /\ b \in Nat
           /\ b + ChunkSize <= RingSize
           /\ b + ChunkSize = RingSize \/ b + ChunkSize \in Boundaries
           /\ NextBoundary(b) \in Boundaries
<1>1. PICK k \in 0..(NumChunks - 1) : b = k * ChunkSize
  BY DEF Boundaries
<1>2. k \in Nat /\ k + 1 \in Nat /\ NumChunks \in Nat /\ k + 1 <= NumChunks
  BY LayoutAssumption
<1>3. b \in Nat /\ (k + 1) * ChunkSize <= NumChunks * ChunkSize
  BY <1>1, <1>2, Sizes, Products
<1>4. (k + 1) * ChunkSize = b + ChunkSize
  BY <1>1, <1>2, Sizes
<1>5. b + ChunkSize <= RingSize
  BY <1>3, <1>4 DEF RingSize
<1>6. 0 * ChunkSize \in Boundaries
  BY LayoutAssumption DEF Boundaries
<1>7. 0 \in Boundaries
  BY <1>6, Sizes
<1>8. CASE k + 1 = NumChunks
  BY <1>3, <1>4, <1>5, <1>7, <1>8 DEF RingSize, NextBoundary
<1>9. CASE k + 1 # NumChunks
  <2>1. k + 1 \in 0..(NumChunks - 1)
    BY <1>2, <1>9
  <2>2. b + ChunkSize \in Boundaries
    BY <2>1, <1>4 DEF Boundaries
  <2> QED
    BY <2>2, <1>3, <1>5, <1>7 DEF NextBoundary
<1> QED
  BY <1>8, <1>9

\* The first chunk starts at 0.
LEMMA ZeroBoundary == 0 \in Boundaries
<1>1. 0 * ChunkSize \in Boundaries
  BY LayoutAssumption DEF Boundaries
<1> QED
  BY <1>1, Sizes

-----------------------------------------------------------------------------
(* The invariant. *)

Apps ==
    [open : EventIds \cup {None}, seam : Records \cup {None},
     chunk : Boundaries \cup {None}, known : SUBSET EventIds,
     reset : BOOLEAN,
     faults : SUBSET {"chunk", "pairing", "seam", "update", "unknown"}]

\* The sink takes packets exactly while FeedPackets runs, and the last chunk
\* it told is the one it is writing.
InChunk ==
    /\ on <=> run = "up"
    /\ on => told <= pos /\ pos < told + ChunkSize

\* Nothing is sent, and nothing recorded, before the recorder is prepared.
Fresh ==
    state = "preparing" =>
        /\ eit = None /\ ~ event_started /\ boundary = None
        /\ app.open = None /\ app.seam = None /\ app.chunk = None
        /\ on => pos = told

\* The recorder prepares once, from the start.
OffFresh == run = "off" => state = "preparing"

\* Recorder and application agree from then on.
Agreed ==
    state = "recording" /\ run = "up" =>
        /\ eit \in Events /\ boundary \in Records
        /\ app.open = (IF event_started THEN eit.id ELSE None)
        /\ app.seam = boundary
        /\ app.chunk = told

\* The only message out of place is the update UpdatesKnownEvent is about.
NoFaults == app.faults \subseteq {"unknown"}

\* The inductive invariant.
IInv == TypeOK /\ InChunk /\ OffFresh /\ Fresh /\ Agreed /\ NoFaults

-----------------------------------------------------------------------------
(* The ring. *)

\* What a remainder is, for a divisor that is not a number in the formula.
LEMMA Division ==
    ASSUME NEW c \in Nat \ {0}, NEW q \in Nat, NEW r \in Nat, r < c
    PROVE  (q * c + r) % c = r
<1> DEFINE p == q * c + r
<1> DEFINE d == p \div c
<1> DEFINE m == p % c
<1>1. q * c \in Nat /\ p \in Nat
  BY SMT
<1> HIDE DEF p
<1>2. d \in Nat /\ m \in Nat /\ m < c
  BY <1>1, SMT
<1>3. p = c * d + m
  BY <1>1, SMT
<1> HIDE DEF d, m
<1>4. c * d = d * c /\ d * c \in Nat
  BY <1>2, SMT
<1>5. p = d * c + m
  BY <1>3, <1>4
<1>6. ASSUME d + 1 <= q PROVE FALSE
  <2>1. (d + 1) * c <= q * c
    BY <1>2, <1>6, Products
  <2>2. (d + 1) * c = d * c + c
    BY <1>2, SMT
  <2> QED
    BY <2>1, <2>2, <1>1, <1>2, <1>4, <1>5 DEF p
<1>7. ASSUME q + 1 <= d PROVE FALSE
  <2>1. (q + 1) * c <= d * c
    BY <1>2, <1>7, Products
  <2>2. (q + 1) * c = q * c + c
    BY SMT
  <2> QED
    BY <2>1, <2>2, <1>1, <1>2, <1>4, <1>5 DEF p
<1>8. d = q
  BY <1>2, <1>6, <1>7
<1>9. m = r
  BY <1>1, <1>2, <1>5, <1>8 DEF p
<1> QED
  BY <1>9 DEF m, p

\* A position in the chunk at b is b and a remainder.
LEMMA Remainder ==
    ASSUME NEW b \in Boundaries, NEW p \in Nat, b <= p, p < b + ChunkSize
    PROVE  p % ChunkSize = p - b
<1>1. PICK k \in 0..(NumChunks - 1) : b = k * ChunkSize
  BY DEF Boundaries
<1>2. k \in Nat /\ ChunkSize \in Nat \ {0}
  BY <1>1, Sizes, LayoutAssumption
<1>3. b \in Nat /\ p - b \in Nat /\ p - b < ChunkSize
  BY <1>2, BoundaryStep
<1>4. p = k * ChunkSize + (p - b)
  BY <1>1, <1>2, <1>3
<1>5. (k * ChunkSize + (p - b)) % ChunkSize = p - b
  BY <1>2, <1>3, Division
<1> QED
  BY <1>4, <1>5

\* The sink's layout is the recorder's.
LEMMA SameLayout ==
    /\ Sink!ChunkSize = ChunkSize
    /\ Sink!RingSize = RingSize
    /\ \A b : Sink!NextBoundary(b) = NextBoundary(b)
<1>1. Sink!ChunkSize = ChunkSize
  BY DEF Sink!ChunkSize, ChunkSize
<1>2. Sink!RingSize = RingSize
  BY <1>1 DEF Sink!RingSize, RingSize
<1> QED
  BY <1>1, <1>2 DEF Sink!NextBoundary, NextBoundary

\* A packet written in the chunk at b ends in that chunk or in the next one,
\* which is then the one the observer is told.
LEMMA PacketStep ==
    ASSUME NEW b \in Boundaries, NEW p \in Nat, b <= p, p < b + ChunkSize
    PROVE  /\ Sink!ToldAt(p) = NextBoundary(b)
           /\ Sink!Advance(p) \in 0..(RingSize - 1)
           /\ Sink!EndsChunk(p) => /\ NextBoundary(b) <= Sink!Advance(p)
                                  /\ Sink!Advance(p) < NextBoundary(b) + ChunkSize
           /\ ~ Sink!EndsChunk(p) => /\ b <= Sink!Advance(p)
                                    /\ Sink!Advance(p) < b + ChunkSize
<1>1. p % ChunkSize = p - b
  BY Remainder
<1>2. /\ ChunkSize \in Nat /\ RingSize \in Nat \ {0} /\ PktSize \in Nat \ {0}
      /\ PktSize <= ChunkSize
      /\ b \in Nat /\ b + ChunkSize <= RingSize
      /\ b + ChunkSize = RingSize \/ b + ChunkSize + ChunkSize <= RingSize
  <2>1. b + ChunkSize \in Boundaries => b + ChunkSize + ChunkSize <= RingSize
    BY BoundaryStep
  <2> QED
    BY <2>1, Sizes, BoundaryStep
<1>3. Sink!ToldAt(p) = NextBoundary(b)
  <2>1. p - (p - b) = b
    BY <1>2
  <2> QED
    BY <2>1, <1>1, SameLayout DEF Sink!ToldAt
<1>4. Sink!EndsChunk(p) <=> p + PktSize >= b + ChunkSize
  <2>1. Sink!EndsChunk(p) <=> (p - b) + PktSize >= ChunkSize
    BY <1>1, SameLayout DEF Sink!EndsChunk
  <2> QED
    BY <2>1, <1>2
<1>5. Sink!Advance(p) = (p + PktSize) % RingSize
  BY SameLayout DEF Sink!Advance
<1>6. CASE p + PktSize < RingSize
  <2>1. (0 * RingSize + (p + PktSize)) % RingSize = p + PktSize
    BY <1>2, <1>6, Division
  <2>2. Sink!Advance(p) = p + PktSize
    BY <2>1, <1>2, <1>5
  <2>3. Sink!EndsChunk(p) => NextBoundary(b) = b + ChunkSize
    BY <1>2, <1>4, <1>6 DEF NextBoundary
  <2> QED
    BY <2>2, <2>3, <1>2, <1>3, <1>4, <1>6
<1>7. CASE p + PktSize >= RingSize
  <2>1. b + ChunkSize = RingSize
    BY <1>2, <1>7
  <2>2. p + PktSize - RingSize \in Nat /\ p + PktSize - RingSize < RingSize
    BY <1>2, <1>7
  <2>3. (1 * RingSize + (p + PktSize - RingSize)) % RingSize = p + PktSize - RingSize
    BY <1>2, <2>2, Division
  <2>4. 1 * RingSize + (p + PktSize - RingSize) = p + PktSize
    BY <1>2
  <2>5. Sink!Advance(p) = p + PktSize - RingSize
    BY <2>3, <2>4, <1>5
  <2>6. NextBoundary(b) = 0
    BY <2>1 DEF NextBoundary
  <2> QED
    BY <2>1, <2>2, <2>5, <2>6, <1>2, <1>3, <1>4, <1>7
<1> QED
  BY <1>2, <1>6, <1>7

-----------------------------------------------------------------------------
(* The messages. *)

\* Faults are of the kinds TypeOK lists.
LEMMA FaultType ==
    ASSUME NEW name \in {"chunk", "pairing", "seam", "update", "unknown"}, NEW bad
    PROVE  /\ Fault(bad, name) \subseteq {name}
           /\ ~ bad => Fault(bad, name) = {}
  BY DEF Fault

\* What each message does to the application.
LEMMA StartMessage ==
    ASSUME NEW a \in Apps, NEW e \in Events, NEW r \in Records
    PROVE  LET b == SendEventStartMessage(a, e, r)
           IN  /\ b \in Apps
               /\ b.open = e.id /\ b.seam = a.seam /\ b.chunk = a.chunk
               /\ a.open = None /\ a.seam = r => b.faults = a.faults
<1> DEFINE f == Fault(a.open # None, "pairing")
<1> DEFINE g == Fault(a.seam # r, "seam")
<1> DEFINE b == SendEventStartMessage(a, e, r)
<1>1. /\ f \subseteq {"pairing"} /\ g \subseteq {"seam"}
      /\ a.open = None => f = {}
      /\ a.seam = r => g = {}
  BY FaultType
<1>2. e.id \in EventIds
  BY DEF Events
<1>3. b = [a EXCEPT !.open = e.id, !.known = a.known \cup {e.id},
                    !.faults = a.faults \cup f \cup g]
  BY DEF SendEventStartMessage, Apps
<1> HIDE DEF b, f, g
<1>4. /\ b.open = e.id /\ b.seam = a.seam /\ b.chunk = a.chunk
      /\ b.faults = a.faults \cup f \cup g
  BY <1>3 DEF Apps
<1>5. b \in Apps
  BY <1>1, <1>2, <1>3 DEF Apps
<1> QED
  BY <1>1, <1>4, <1>5 DEF b

LEMMA EndMessage ==
    ASSUME NEW a \in Apps, NEW e \in Events, NEW r \in Records
    PROVE  LET b == SendEventEndMessage(a, e, r)
           IN  /\ b \in Apps
               /\ b.open = None /\ b.seam = r /\ b.chunk = a.chunk
               /\ a.open = e.id => b.faults = a.faults
<1> DEFINE f == Fault(a.open # e.id, "pairing")
<1> DEFINE b == SendEventEndMessage(a, e, r)
<1>1. f \subseteq {"pairing"} /\ (a.open = e.id => f = {})
  BY FaultType
<1>2. b = [a EXCEPT !.open = None, !.seam = r, !.faults = a.faults \cup f]
  BY DEF SendEventEndMessage, Apps
<1> HIDE DEF b, f
<1>3. b.open = None /\ b.seam = r /\ b.chunk = a.chunk /\ b.faults = a.faults \cup f
  BY <1>2 DEF Apps
<1>4. b \in Apps
  BY <1>1, <1>2 DEF Apps
<1> QED
  BY <1>1, <1>3, <1>4 DEF b

LEMMA UpdateMessage ==
    ASSUME NEW a \in Apps, NEW e \in Events
    PROVE  LET b == SendEventUpdateMessage(a, e)
           IN  /\ b \in Apps
               /\ b.open = a.open /\ b.seam = a.seam /\ b.chunk = a.chunk
               /\ a.open \in {None, e.id} => b.faults \subseteq a.faults \cup {"unknown"}
<1> DEFINE f == Fault(a.open \notin {None, e.id}, "update")
<1> DEFINE g == Fault(e.id \notin a.known, "unknown")
<1> DEFINE b == SendEventUpdateMessage(a, e)
<1>1. /\ f \subseteq {"update"} /\ g \subseteq {"unknown"}
      /\ a.open \in {None, e.id} => f = {}
  BY FaultType
<1>2. b = [a EXCEPT !.faults = a.faults \cup f \cup g]
  BY DEF SendEventUpdateMessage, Apps
<1> HIDE DEF b, f, g
<1>3. /\ b.open = a.open /\ b.seam = a.seam /\ b.chunk = a.chunk
      /\ b.faults = a.faults \cup f \cup g
  BY <1>2 DEF Apps
<1>4. b \in Apps
  BY <1>1, <1>2 DEF Apps
<1> QED
  BY <1>1, <1>3, <1>4 DEF b

LEMMA ChunkMessage ==
    ASSUME NEW a \in Apps, NEW r \in Records, r.pos \in Boundaries
    PROVE  LET b == SendChunkMessage(a, r)
           IN  /\ b \in Apps
               /\ b.open = a.open /\ b.chunk = r.pos
               /\ b.seam = (IF a.chunk = None THEN r ELSE a.seam)
               /\ a.chunk = None \/ r.pos = NextBoundary(a.chunk)
                     => b.faults = a.faults
<1> DEFINE f == Fault(/\ a.chunk # None
                      /\ r.pos # NextBoundary(a.chunk), "chunk")
<1> DEFINE s == IF a.chunk = None THEN r ELSE a.seam
<1> DEFINE b == SendChunkMessage(a, r)
<1>1. /\ f \subseteq {"chunk"}
      /\ a.chunk = None \/ r.pos = NextBoundary(a.chunk) => f = {}
  BY FaultType
<1>2. s \in Records \cup {None}
  BY DEF Apps
<1>3. b = [a EXCEPT !.chunk = r.pos, !.seam = s, !.faults = a.faults \cup f]
  BY DEF SendChunkMessage, Apps
<1> HIDE DEF b, f, s
<1>4. b.open = a.open /\ b.chunk = r.pos /\ b.seam = s /\ b.faults = a.faults \cup f
  BY <1>3 DEF Apps
<1>5. b \in Apps
  BY <1>1, <1>2, <1>3 DEF Apps
<1> QED
  BY <1>1, <1>4, <1>5 DEF b, s

\* OnEndOfChunk, called with the program on the air: the next chunk, and no
\* other fault than an update for a program that never started.
LEMMA EndOfChunk ==
    ASSUME NEW a \in Apps, NEW e \in Events, NEW now \in Times,
           NEW b \in Boundaries, pos \in Nat, b <= pos, pos < b + ChunkSize,
           a.open \in {None, e.id}, a.chunk = b
    PROVE  LET c == OnEndOfChunk(a, e, now)
           IN  /\ c \in Apps
               /\ c.open = a.open /\ c.seam = a.seam /\ c.chunk = NextBoundary(b)
               /\ c.faults \subseteq a.faults \cup {"unknown"}
<1> DEFINE u == SendEventUpdateMessage(a, e)
<1> DEFINE r == [time |-> now, pos |-> Sink!ToldAt(pos)]
<1>1. /\ u \in Apps
      /\ u.open = a.open /\ u.seam = a.seam /\ u.chunk = a.chunk
      /\ u.faults \subseteq a.faults \cup {"unknown"}
  BY UpdateMessage
<1>2. Sink!ToldAt(pos) = NextBoundary(b)
  BY PacketStep
<1>3. NextBoundary(b) \in Boundaries /\ NextBoundary(b) \in Nat
  BY BoundaryStep
<1>4. r \in Records /\ r.pos = NextBoundary(b)
  BY <1>2, <1>3 DEF Records
<1>5. b # None
  BY BoundaryStep, RecorderAssumption
<1>6. OnEndOfChunk(a, e, now) = SendChunkMessage(u, r)
  BY DEF OnEndOfChunk
<1> HIDE DEF u, r
<1>7. LET c == SendChunkMessage(u, r)
      IN  /\ c \in Apps
          /\ c.open = u.open /\ c.chunk = r.pos
          /\ c.seam = (IF u.chunk = None THEN r ELSE u.seam)
          /\ u.chunk = None \/ r.pos = NextBoundary(u.chunk) => c.faults = u.faults
  BY <1>1, <1>3, <1>4, ChunkMessage
<1> QED
  BY <1>1, <1>4, <1>5, <1>6, <1>7

\* What OnRecording has sent when it hands the packet to the sink.
LEMMA EventMessages ==
    ASSUME IInv, run = "up", state = "recording",
           NEW arrived \in Events \cup {None}, NEW now \in Times
    PROVE  LET seam == UpdateEventBoundary(arrived, now)
               a == SendEventMessages(arrived, seam, now)
           IN  /\ Latest(arrived) \in Events
               /\ seam \in Records
               /\ a \in Apps
               /\ a.open = (IF Started(arrived, now) THEN Latest(arrived).id ELSE None)
               /\ a.seam = seam
               /\ a.chunk = told
               /\ a.faults = app.faults
<1> DEFINE seam == UpdateEventBoundary(arrived, now)
<1> DEFINE a == SendEventMessages(arrived, seam, now)
<1> DEFINE cur == Current(arrived)
<1> DEFINE ending == Switch(arrived) \/ Over(arrived, now)
<1> DEFINE ended == IF ending THEN SendEventEndMessage(app, cur, seam) ELSE app
<1>1. /\ app \in Apps /\ eit \in Events /\ boundary \in Records /\ pos \in Nat
      /\ event_started \in BOOLEAN
      /\ app.open = (IF event_started THEN eit.id ELSE None)
      /\ app.seam = boundary
      /\ app.chunk = told
  BY DEF IInv, TypeOK, Agreed, Apps
<1>2. /\ Latest(arrived) \in Events /\ cur \in Events
      /\ cur.id = eit.id
      /\ Changed(arrived) => arrived \in Events /\ Latest(arrived) = arrived
      /\ ~ Changed(arrived) => Latest(arrived).id = eit.id
  BY <1>1 DEF Latest, Current, Changed
<1>3. /\ ending => event_started
      /\ ~ (Switch(arrived) /\ Over(arrived, now))
      /\ event_started /\ Changed(arrived) => ending
      /\ Started(arrived, now) <=> Changed(arrived) \/ (event_started /\ ~ ending)
  BY <1>1 DEF Switch, Over, Started
<1>4. seam \in Records /\ (~ ending => seam = boundary)
  <2>1. CASE Switch(arrived)
    BY <2>1, <1>1, <1>3 DEF UpdateEventBoundary, Records
  <2>2. CASE ~ Switch(arrived) /\ Over(arrived, now)
    <3>1. cur.end \in Times
      BY <2>2, <1>2 DEF Over, OnAir, Events
    <3> QED
      BY <3>1, <2>2, <1>1 DEF UpdateEventBoundary, Records
  <2>3. CASE ~ ending
    BY <2>3, <1>1 DEF UpdateEventBoundary
  <2> QED
    BY <2>1, <2>2, <2>3
<1>5. a = IF Changed(arrived) THEN SendEventStartMessage(ended, arrived, seam) ELSE ended
  BY DEF SendEventMessages
<1> HIDE DEF seam, a, cur, ending
<1>6. /\ ended \in Apps
      /\ ended.open = (IF event_started /\ ~ ending THEN eit.id ELSE None)
      /\ ended.seam = seam
      /\ ended.chunk = told
      /\ ended.faults = app.faults
  <2>1. CASE ending
    <3>1. LET c == SendEventEndMessage(app, cur, seam)
          IN  /\ c \in Apps
              /\ c.open = None /\ c.seam = seam /\ c.chunk = app.chunk
              /\ app.open = cur.id => c.faults = app.faults
      BY <1>1, <1>2, <1>4, EndMessage
    <3>2. app.open = cur.id
      BY <2>1, <1>1, <1>2, <1>3
    <3> QED
      BY <3>1, <3>2, <2>1, <1>1
  <2>2. CASE ~ ending
    BY <2>2, <1>1, <1>4
  <2> QED
    BY <2>1, <2>2
<1> HIDE DEF ended
<1>7. CASE Changed(arrived)
  <2>1. ended.open = None
    BY <1>3, <1>6, <1>7
  <2>2. LET c == SendEventStartMessage(ended, arrived, seam)
        IN  /\ c \in Apps
            /\ c.open = arrived.id /\ c.seam = ended.seam /\ c.chunk = ended.chunk
            /\ ended.open = None /\ ended.seam = seam => c.faults = ended.faults
    BY <1>2, <1>4, <1>6, <1>7, StartMessage
  <2> QED
    BY <2>1, <2>2, <1>2, <1>3, <1>4, <1>5, <1>6, <1>7 DEF seam, a
<1>8. CASE ~ Changed(arrived)
  BY <1>2, <1>3, <1>4, <1>5, <1>6, <1>8 DEF seam, a
<1> QED
  BY <1>7, <1>8

-----------------------------------------------------------------------------
(* The steps. *)

\* The initial states satisfy the invariant.
LEMMA Initial == Init => IInv
<1> SUFFICES ASSUME Init PROVE IInv
  OBVIOUS
<1>1. /\ clock = [pid |-> None, pcr |-> FALSE, time |-> FALSE]
      /\ on = FALSE /\ pos = 0 /\ told = 0
      /\ app = [open |-> None, seam |-> None, chunk |-> None, known |-> {},
                reset |-> FALSE, faults |-> {}]
  BY DEF Init, Clock!Init, Sink!Init
<1>2. 0 \in Boundaries /\ 0 \in 0..(RingSize - 1)
  BY ZeroBoundary, Sizes
<1>3. TypeOK
  <2>1. app \in Apps
    BY <1>1 DEF Apps
  <2>2. clock \in [pid : PcrPids \cup {None}, pcr : BOOLEAN, time : BOOLEAN]
    BY <1>1
  <2>3. /\ run \in {"off", "up", "broken", "ended"}
        /\ state \in {"preparing", "recording"}
        /\ pmt_pid \in PmtPids \cup {None}
        /\ eit \in Events \cup {None} /\ new_eit \in Events \cup {None}
        /\ event_started \in BOOLEAN /\ boundary \in Records \cup {None}
    BY DEF Init
  <2>4. on \in BOOLEAN /\ pos \in 0..(RingSize - 1) /\ told \in Boundaries
    BY <1>1, <1>2
  <2> QED
    BY <2>1, <2>2, <2>3, <2>4 DEF TypeOK, Apps
<1> QED
  BY <1>1, <1>3 DEF Init, IInv, InChunk, OffFresh, Fresh, Agreed, NoFaults

\* The handlers of the tables keep the types of what they change.
LEMMA DemuxType ==
    ASSUME TypeOK, NEW p \in Packets, Demux(p)
    PROVE  /\ pmt_pid' \in PmtPids \cup {None}
           /\ clock' \in [pid : PcrPids \cup {None}, pcr : BOOLEAN, time : BOOLEAN]
           /\ HandleEit(p) \in Events \cup {None}
<1> DEFINE C == [pid : PcrPids \cup {None}, pcr : BOOLEAN, time : BOOLEAN]
<1> DEFINE Good == pmt_pid' \in PmtPids \cup {None} /\ clock' \in C
<1>1. clock \in C /\ pmt_pid \in PmtPids \cup {None} /\ new_eit \in Events \cup {None}
  BY DEF TypeOK
<1>2. ASSUME HandlePat(p) PROVE Good
  BY <1>1, <1>2 DEF HandlePat, Packets
<1>3. ASSUME HandlePmt(p) PROVE Good
  <2>1. p.kind = "PMT" /\ pmt_pid' = pmt_pid
    BY <1>3 DEF HandlePmt
  <2>2. p.pcr_pid \in PcrPids
    BY <2>1 DEF Packets
  <2>3. clock' = clock \/ clock' = [pid |-> p.pcr_pid, pcr |-> FALSE, time |-> FALSE]
    BY <1>3 DEF HandlePmt, Clock!SetPid
  <2>4. [pid |-> p.pcr_pid, pcr |-> FALSE, time |-> FALSE] \in C
    BY <2>2
  <2>5. clock' \in C
    BY <2>3, <2>4, <1>1
  <2> QED
    BY <2>1, <2>5, <1>1
<1>4. ASSUME HandleTot(p) PROVE Good
  BY <1>1, <1>4 DEF HandleTot, Clock!UpdateTime
<1>5. ASSUME HandlePcr(p) PROVE Good
  BY <1>1, <1>5 DEF HandlePcr, Clock!UpdatePcr
<1>6. ASSUME UNCHANGED tables PROVE Good
  BY <1>1, <1>6 DEF tables
<1>7. HandleEit(p) \in Events \cup {None}
  BY <1>1 DEF HandleEit, Packets
<1> QED
  BY <1>2, <1>3, <1>4, <1>5, <1>6, <1>7 DEF Demux

\* A packet while preparing.
LEMMA PreparingStep ==
    ASSUME IInv, run = "up",
           NEW arrived \in Events \cup {None}, NEW now \in Times,
           OnPreparing(arrived, now),
           pmt_pid' \in PmtPids \cup {None},
           clock' \in [pid : PcrPids \cup {None}, pcr : BOOLEAN, time : BOOLEAN]
    PROVE  IInv'
<1> DEFINE here == [time |-> now, pos |-> pos]
<1> DEFINE begun == SendChunkMessage(app, here)
<1>1. /\ state = "preparing" /\ run' = run /\ on' = on /\ pos' = pos /\ told' = told
  BY DEF OnPreparing, ring
<1>2. /\ on = TRUE /\ pos = told /\ told \in Boundaries /\ pos \in 0..(RingSize - 1)
      /\ app \in Apps /\ app.chunk = None /\ app.open = None /\ app.seam = None
      /\ app.faults \subseteq {"unknown"}
      /\ eit = None /\ event_started = FALSE /\ boundary = None
  BY <1>1 DEF IInv, TypeOK, InChunk, Fresh, NoFaults, Apps
<1>3. told <= pos /\ pos < told + ChunkSize
  BY <1>2 DEF IInv, InChunk
<1>4. here \in Records /\ here.pos = told /\ here.pos \in Boundaries
  BY <1>2, BoundaryStep DEF Records
<1>5. CASE Clock!IsReady(clock') /\ arrived # None
  <2> DEFINE live == OnAir(arrived, now)
  <2>1. /\ state' = "recording" /\ eit' = arrived /\ new_eit' = None
        /\ boundary' = here /\ event_started' = live
        /\ app' = IF live THEN SendEventStartMessage(begun, arrived, here) ELSE begun
    BY <1>1, <1>5 DEF OnPreparing
  <2>2. arrived \in Events /\ live \in BOOLEAN
    BY <1>5 DEF OnAir
  <2> HIDE DEF here, live
  <2>3. /\ begun \in Apps /\ begun.open = None /\ begun.chunk = told
        /\ begun.seam = here /\ begun.faults = app.faults
    <3>1. LET b == SendChunkMessage(app, here)
          IN  /\ b \in Apps
              /\ b.open = app.open /\ b.chunk = here.pos
              /\ b.seam = (IF app.chunk = None THEN here ELSE app.seam)
              /\ app.chunk = None \/ here.pos = NextBoundary(app.chunk)
                    => b.faults = app.faults
      BY <1>2, <1>4, ChunkMessage
    <3> QED
      BY <3>1, <1>2, <1>4
  <2> HIDE DEF begun
  <2>4. LET b == SendEventStartMessage(begun, arrived, here)
        IN  /\ b \in Apps
            /\ b.open = arrived.id /\ b.seam = begun.seam /\ b.chunk = begun.chunk
            /\ begun.open = None /\ begun.seam = here => b.faults = begun.faults
    BY <2>2, <2>3, <1>4, StartMessage
  <2>5. /\ app' \in Apps /\ app'.chunk = told /\ app'.seam = here
        /\ app'.open = (IF live THEN arrived.id ELSE None)
        /\ app'.faults = app.faults
    <3>1. CASE live
      BY <3>1, <2>1, <2>3, <2>4
    <3>2. CASE ~ live
      BY <3>2, <2>1, <2>3
    <3> QED
      BY <3>1, <3>2
  <2>6. TypeOK'
    <3>1. event_started' \in BOOLEAN
      BY <2>1, <2>2
    <3>2. boundary' \in Records /\ eit' \in Events
      BY <2>1, <2>2, <1>4
    <3> QED
      BY <3>1, <3>2, <2>1, <2>5, <1>1, <1>2 DEF TypeOK, IInv, Apps
  <2> QED
    BY <2>1, <2>2, <2>5, <2>6, <1>1, <1>2, <1>3, <1>4
       DEF IInv, InChunk, OffFresh, Fresh, Agreed, NoFaults
<1>6. CASE ~ (Clock!IsReady(clock') /\ arrived # None)
  <2>1. /\ new_eit' = arrived /\ state' = state /\ eit' = eit
        /\ event_started' = event_started /\ boundary' = boundary /\ app' = app
    BY <1>1, <1>6 DEF OnPreparing
  <2>2. TypeOK'
    BY <2>1, <1>1 DEF TypeOK, IInv
  <2> QED
    BY <2>1, <2>2, <1>1 DEF IInv, InChunk, OffFresh, Fresh, Agreed, NoFaults
<1> QED
  BY <1>5, <1>6

\* A packet while recording.
LEMMA RecordingStep ==
    ASSUME IInv, run = "up",
           NEW arrived \in Events \cup {None}, NEW now \in Times,
           OnRecording(arrived, now),
           pmt_pid' \in PmtPids \cup {None},
           clock' \in [pid : PcrPids \cup {None}, pcr : BOOLEAN, time : BOOLEAN]
    PROVE  IInv'
<1> DEFINE seam == UpdateEventBoundary(arrived, now)
<1> DEFINE a == SendEventMessages(arrived, seam, now)
<1> DEFINE event == Latest(arrived)
<1>1. /\ state = "recording" /\ state' = state /\ eit' = event /\ new_eit' = None
      /\ boundary' = seam /\ event_started' = Started(arrived, now)
      /\ FeedSink(a, event, now)
  BY DEF OnRecording
<1>2. /\ event \in Events /\ seam \in Records /\ a \in Apps
      /\ a.open = (IF Started(arrived, now) THEN event.id ELSE None)
      /\ a.seam = seam /\ a.chunk = told /\ a.faults = app.faults
  BY <1>1, EventMessages
<1>3. /\ on = TRUE /\ told \in Boundaries /\ pos \in 0..(RingSize - 1) /\ pos \in Nat
      /\ told <= pos /\ pos < told + ChunkSize
      /\ app.faults \subseteq {"unknown"}
  BY Sizes DEF IInv, TypeOK, InChunk, NoFaults
<1>4. /\ Sink!ToldAt(pos) = NextBoundary(told)
      /\ NextBoundary(told) \in Boundaries
      /\ Sink!Advance(pos) \in 0..(RingSize - 1)
      /\ Sink!EndsChunk(pos) => /\ NextBoundary(told) <= Sink!Advance(pos)
                               /\ Sink!Advance(pos) < NextBoundary(told) + ChunkSize
      /\ ~ Sink!EndsChunk(pos) => /\ told <= Sink!Advance(pos)
                                 /\ Sink!Advance(pos) < told + ChunkSize
  BY <1>3, PacketStep, BoundaryStep
<1>5. Started(arrived, now) \in BOOLEAN
  BY DEF Started, IInv, TypeOK
<1> HIDE DEF seam, a, event
<1>6. \A later \in Times :
         /\ OnEndOfChunk(a, event, later) \in Apps
         /\ OnEndOfChunk(a, event, later).open = a.open
         /\ OnEndOfChunk(a, event, later).seam = a.seam
         /\ OnEndOfChunk(a, event, later).chunk = NextBoundary(told)
         /\ OnEndOfChunk(a, event, later).faults \subseteq {"unknown"}
  <2> TAKE later \in Times
  <2>1. a.open \in {None, event.id}
    BY <1>2
  <2>2. LET c == OnEndOfChunk(a, event, later)
        IN  /\ c \in Apps
            /\ c.open = a.open /\ c.seam = a.seam /\ c.chunk = NextBoundary(told)
            /\ c.faults \subseteq a.faults \cup {"unknown"}
    BY <2>1, <1>2, <1>3, EndOfChunk
  <2> QED
    BY <2>2, <1>2, <1>3
<1>7. Later(now) \subseteq Times
  BY DEF Later
<1>8. /\ app' \in Apps /\ app'.faults \subseteq {"unknown"}
      /\ run' \in {"up", "broken"} /\ on' \in BOOLEAN /\ (on' <=> run' = "up")
      /\ pos' \in 0..(RingSize - 1) /\ told' \in Boundaries
      /\ run' = "up" => /\ told' <= pos' /\ pos' < told' + ChunkSize
                        /\ app'.open = a.open /\ app'.seam = a.seam /\ app'.chunk = told'
  <2>1. CASE Sink!HandlePacket /\ run' = run
    <3>1. on' = TRUE /\ pos' = Sink!Advance(pos)
          /\ told' = IF Sink!EndsChunk(pos) THEN Sink!ToldAt(pos) ELSE told
      BY <2>1 DEF Sink!HandlePacket
    <3>2. CASE Sink!EndsChunk(pos) /\ \E later \in Later(now) : app' = OnEndOfChunk(a, event, later)
      BY <3>1, <3>2, <2>1, <1>2, <1>3, <1>4, <1>6, <1>7
    <3>3. CASE ~ Sink!EndsChunk(pos) /\ app' = a
      BY <3>1, <3>3, <2>1, <1>2, <1>3, <1>4
    <3>4. \/ Sink!EndsChunk(pos) /\ \E later \in Later(now) : app' = OnEndOfChunk(a, event, later)
          \/ ~ Sink!EndsChunk(pos) /\ app' = a
      BY <2>1, <1>1, <3>1, <1>3 DEF FeedSink, Sink!Stop
    <3> QED
      BY <3>2, <3>3, <3>4
  <2>2. CASE Sink!Stop(told) /\ app' = a /\ run' = "broken"
    <3>1. on' = FALSE /\ pos' = 0 /\ told' = told
      BY <2>2 DEF Sink!Stop
    <3>2. app' \in Apps /\ app'.faults \subseteq {"unknown"}
      BY <2>2, <1>2, <1>3
    <3>3. on' \in BOOLEAN /\ (on' <=> run' = "up") /\ run' # "up"
      BY <3>1, <2>2
    <3>4. pos' \in 0..(RingSize - 1) /\ told' \in Boundaries
      BY <3>1, <1>3, <1>4, Sizes
    <3> QED
      BY <3>2, <3>3, <3>4, <2>2
  <2>3. CASE /\ Sink!Stop(Sink!ToldAt(pos)) /\ run' = "broken"
             /\ \E later \in Later(now) : app' = OnEndOfChunk(a, event, later)
    <3>1. on' = FALSE /\ pos' = 0 /\ told' = NextBoundary(told)
      BY <2>3, <1>4 DEF Sink!Stop
    <3>2. app' \in Apps /\ app'.faults \subseteq {"unknown"}
      BY <2>3, <1>6, <1>7
    <3>3. on' \in BOOLEAN /\ (on' <=> run' = "up") /\ run' # "up"
      BY <3>1, <2>3
    <3>4. pos' \in 0..(RingSize - 1) /\ told' \in Boundaries
      BY <3>1, <1>3, <1>4, Sizes
    <3> QED
      BY <3>2, <3>3, <3>4, <2>3
  <2> QED
    BY <2>1, <2>2, <2>3, <1>1 DEF FeedSink
<1>9. TypeOK'
  <2>1. event_started' \in BOOLEAN /\ boundary' \in Records /\ eit' \in Events
    BY <1>1, <1>2, <1>5
  <2>2. state' \in {"preparing", "recording"} /\ run' \in {"off", "up", "broken", "ended"}
    BY <1>1, <1>8
  <2> QED
    BY <2>1, <2>2, <1>1, <1>8 DEF TypeOK, Apps
<1>10. Agreed'
  BY <1>1, <1>2, <1>8 DEF Agreed
<1> QED
  BY <1>1, <1>8, <1>9, <1>10 DEF IInv, InChunk, OffFresh, Fresh, NoFaults

\* Every step keeps the invariant.
LEMMA Step == IInv /\ [Next]_vars => IInv'
<1> SUFFICES ASSUME IInv, [Next]_vars PROVE IInv'
  OBVIOUS
<1>1. CASE Start
  <2>1. /\ run = "off" /\ on = FALSE
        /\ UNCHANGED <<tables, machine, app>>
    BY <1>1 DEF Start, IInv, InChunk, TypeOK
  <2>2. /\ pmt_pid' = pmt_pid /\ clock' = clock /\ state' = state /\ eit' = eit
        /\ new_eit' = new_eit /\ event_started' = event_started
        /\ boundary' = boundary /\ app' = app
    BY <2>1 DEF tables, machine
  <2>3. CASE run' = "up" /\ \E p \in Boundaries : Sink!Start(p)
    <3>1. PICK p \in Boundaries : Sink!Start(p)
      BY <2>3
    <3>2. on' = TRUE /\ pos' = p /\ told' = p
      BY <3>1 DEF Sink!Start
    <3>3. p \in 0..(RingSize - 1) /\ p <= p /\ p < p + ChunkSize
      BY BoundaryStep, Sizes
    <3>4. TypeOK'
      BY <3>2, <3>3, <2>2, <2>3 DEF IInv, TypeOK
    <3>5. state = "preparing"
      BY <2>1 DEF IInv, OffFresh
    <3> QED
      BY <3>2, <3>3, <3>4, <3>5, <2>2, <2>3
         DEF IInv, InChunk, Fresh, Agreed, NoFaults, OffFresh
  <2>4. CASE run' = "ended" /\ UNCHANGED ring
    <3>1. on' = on /\ pos' = pos /\ told' = told
      BY <2>4 DEF ring
    <3>2. TypeOK'
      BY <3>1, <2>2, <2>4 DEF IInv, TypeOK
    <3> QED
      BY <3>1, <3>2, <2>1, <2>2, <2>4
         DEF IInv, InChunk, Fresh, Agreed, NoFaults, OffFresh
  <2> QED
    BY <2>3, <2>4, <1>1 DEF Start
<1>2. CASE HandlePacket
  <2>1. PICK p \in Packets, now \in Times :
           Demux(p) /\ (OnPreparing(HandleEit(p), now) \/ OnRecording(HandleEit(p), now))
    BY <1>2 DEF HandlePacket
  <2>2. run = "up" /\ TypeOK
    BY <1>2 DEF HandlePacket, IInv
  <2>3. /\ pmt_pid' \in PmtPids \cup {None}
        /\ clock' \in [pid : PcrPids \cup {None}, pcr : BOOLEAN, time : BOOLEAN]
        /\ HandleEit(p) \in Events \cup {None}
    BY <2>1, <2>2, DemuxType
  <2> QED
    BY <2>1, <2>2, <2>3, PreparingStep, RecordingStep
<1>3. CASE End
  <2>1. /\ run \in {"up", "broken"} /\ run' = "ended"
        /\ app' = [app EXCEPT !.reset = (run = "broken")]
        /\ pmt_pid' = pmt_pid /\ clock' = clock /\ state' = state /\ eit' = eit
        /\ new_eit' = new_eit /\ event_started' = event_started /\ boundary' = boundary
    BY <1>3 DEF End, SendStopMessage, tables, machine
  <2>2. on' = FALSE /\ pos' \in 0..(RingSize - 1) /\ told' = told
    <3>1. CASE on
      BY <3>1, <1>3, Sizes DEF End, Sink!Stop
    <3>2. CASE ~ on
      BY <3>2, <1>3 DEF End, ring, IInv, TypeOK
    <3> QED
      BY <3>1, <3>2
  <2>3. app \in Apps
    BY DEF IInv, TypeOK, Apps
  <2>4. /\ app' \in Apps /\ app'.open = app.open /\ app'.seam = app.seam
        /\ app'.chunk = app.chunk /\ app'.faults = app.faults
    BY <2>1, <2>3 DEF Apps
  <2>5. TypeOK'
    BY <2>1, <2>2, <2>4 DEF IInv, TypeOK, Apps
  <2> QED
    BY <2>1, <2>2, <2>4, <2>5 DEF IInv, InChunk, Fresh, Agreed, NoFaults, OffFresh
<1>4. CASE UNCHANGED vars
  <2>1. /\ run' = run /\ pmt_pid' = pmt_pid /\ clock' = clock /\ state' = state
        /\ eit' = eit /\ new_eit' = new_eit /\ event_started' = event_started
        /\ boundary' = boundary /\ on' = on /\ pos' = pos /\ told' = told /\ app' = app
    BY <1>4 DEF vars, tables, machine, ring
  <2> QED
    BY <2>1 DEF IInv, TypeOK, InChunk, Fresh, Agreed, NoFaults, OffFresh
<1> QED
  BY <1>1, <1>2, <1>3, <1>4 DEF Next

-----------------------------------------------------------------------------
(* The theorems. *)

\* The invariant holds throughout.
THEOREM Invariance == Spec => []IInv
  BY Initial, Step, PTL DEF Spec

\* The state of the recorder, of the sink's interface and of the application
\* keeps its types.
THEOREM TypeCorrect == Spec => []TypeOK
<1>1. IInv => TypeOK
  BY DEF IInv
<1> QED
  BY <1>1, Invariance, PTL

\* OnRecording's `event-start` and `event-end` messages alternate and name
\* the same program.
THEOREM EventsAlwaysPaired == Spec => []EventsPaired
<1>1. IInv => EventsPaired
  BY DEF IInv, NoFaults, EventsPaired
<1> QED
  BY <1>1, Invariance, PTL

\* A record starts where the previous one ended: UpdateEventBoundary is called
\* for every end and for no start.
THEOREM RecordsAlwaysSeamless == Spec => []SeamlessRecords
<1>1. IInv => SeamlessRecords
  BY DEF IInv, NoFaults, SeamlessRecords
<1> QED
  BY <1>1, Invariance, PTL

\* OnEndOfChunk reports the chunks in sequence, around the ring.
THEOREM ChunksAlwaysInSequence == Spec => []ChunksInSequence
<1>1. IInv => ChunksInSequence
  BY DEF IInv, NoFaults, ChunksInSequence
<1> QED
  BY <1>1, Invariance, PTL

\* OnEndOfChunk's `event-update` is about the program on the air.
THEOREM UpdatesAlwaysCurrent == Spec => []UpdatesCurrentEvent
<1>1. IInv => UpdatesCurrentEvent
  BY DEF IInv, NoFaults, UpdatesCurrentEvent
<1> QED
  BY <1>1, Invariance, PTL

\* Events, records, chunks and updates, as OnRecording and OnEndOfChunk send
\* them, make sense together.
THEOREM MessagesAlwaysConsistent == Spec => []MessagesConsistent
  BY EventsAlwaysPaired, RecordsAlwaysSeamless, ChunksAlwaysInSequence,
     UpdatesAlwaysCurrent, PTL DEF MessagesConsistent

\* The recorder and the application agree between any two packets.
THEOREM AppAlwaysInStep == Spec => []AppInStep
<1>1. IInv => AppInStep
  <2> SUFFICES ASSUME IInv, run = "up" PROVE AppInStep
    BY DEF AppInStep
  <2>1. CASE state = "preparing"
    BY <2>1 DEF IInv, Fresh, AppInStep
  <2>2. CASE state = "recording"
    BY <2>2 DEF IInv, Agreed, AppInStep
  <2> QED
    BY <2>1, <2>2 DEF IInv, TypeOK
<1> QED
  BY <1>1, Invariance, PTL

=============================================================================
