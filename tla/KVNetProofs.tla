----------------------------- MODULE KVNetProofs ----------------------------
(***************************************************************************)
(* Clients and server stay in step, and clients read what they have put,   *)
(* for any number of clients, threads and requests, any placing of keys on *)
(* slots and any size of the pieces replies travel in.                     *)
(***************************************************************************)
EXTENDS KVNet, HiKVRefinement

Req        == [len : Nat, keys : Seq(Key)]
PieceRec   == [len : Nat, what : Seq(BOOLEAN)]
Connection == [thread : Server \cup {None},
               state : {"none", "open", "fin", "rst", "dead"},
               fd : {"open", "closed"}, up : Seq(Req), down : Seq(PieceRec)]
ClientRec  == [pc : {"new", "put", "putWait", "get", "getWait", "scan", "scanWait",
                     "done", "exit"},
               n : Nat, tot : Int, ins : Nat, missed : SUBSET Key, scans : Nat]

NetTypes ==
  /\ server \in {"up", "down"}
  /\ serving \in [Server -> Client \cup {Nobody}]
  /\ conn \in [Client -> Connection]
  /\ cl \in [Client -> ClientRec]

-----------------------------------------------------------------------------
(* The pieces of a reply.                                                  *)

PieceCount(len) == (len + Mss - 1) \div Mss

LEMMA MssFacts == Mss \in Nat /\ Mss >= 320 /\ Mss >= NumBatch * 64
  BY NetAssumption DEF ItemSize, KeySize, ValueSize

LEMMA CountFacts ==
  ASSUME NEW len \in Nat, len > 0
  PROVE  /\ PieceCount(len) \in Nat /\ PieceCount(len) > 0
         /\ (PieceCount(len) - 1) * Mss < len
         /\ len <= PieceCount(len) * Mss
  BY MssFacts DEF PieceCount

LEMMA Multiples ==
  ASSUME NEW a \in Nat, NEW b \in Nat, a <= b
  PROVE  /\ a * Mss <= b * Mss /\ a * Mss \in Nat /\ b * Mss \in Nat
         /\ (a + 1) * Mss = a * Mss + Mss
  BY MssFacts

LEMMA LastPiece ==
  ASSUME NEW len \in Nat, len > 0, NEW n \in Nat, n < PieceCount(len)
  PROVE  /\ (n + 1) * Mss < len => n + 1 < PieceCount(len)
         /\ (n + 1) * Mss >= len => n + 1 = PieceCount(len)
<1>1. PICK p \in Nat : p = PieceCount(len) /\ p > 0
  BY CountFacts
<1>2. (p - 1) * Mss < len /\ len <= p * Mss /\ p - 1 \in Nat /\ n + 1 \in Nat
  BY <1>1, CountFacts
<1>3. (n + 1) * Mss \in Nat /\ p * Mss \in Nat /\ (p - 1) * Mss \in Nat
  BY <1>2, MssFacts
<1>4. n + 1 >= p => (n + 1) * Mss >= p * Mss
  BY <1>1, <1>2, Multiples
<1>5. n + 1 <= p - 1 => (n + 1) * Mss <= (p - 1) * Mss
  BY <1>1, <1>2, Multiples
<1>6. QED
  BY <1>1, <1>2, <1>3, <1>4, <1>5

LEMMA SeqOfFun ==
  ASSUME NEW S, NEW n \in Nat, NEW f \in [1 .. n -> S]
  PROVE  f \in Seq(S) /\ Len(f) = n
  OBVIOUS

LEMMA OneSeq ==
  ASSUME NEW S, NEW x \in S
  PROVE  << x >> \in Seq(S)
  OBVIOUS

LEMMA NonEmpty ==
  ASSUME NEW s, Len(s) # 0
  PROVE  s # << >>
  BY EmptySeq

LEMMA PieceFacts ==
  ASSUME NEW len \in Nat, len > 0, NEW what \in Seq(BOOLEAN)
  PROVE  /\ Pieces(len, what) \in Seq(PieceRec)
         /\ Len(Pieces(len, what)) = PieceCount(len)
         /\ \A i \in 1 .. PieceCount(len) :
              /\ Pieces(len, what)[i].what = what
              /\ Pieces(len, what)[i].len = IF i * Mss <= len THEN Mss
                                            ELSE len - (i - 1) * Mss
<1>1. PieceCount(len) \in Nat /\ (PieceCount(len) - 1) * Mss < len /\ PieceCount(len) > 0
  BY CountFacts
<1>2. ASSUME NEW i \in 1 .. PieceCount(len)
      PROVE  (IF i * Mss <= len THEN Mss ELSE len - (i - 1) * Mss) \in Nat
  <2>1. (i - 1) * Mss <= (PieceCount(len) - 1) * Mss /\ (i - 1) * Mss \in Nat
    BY <1>1, <1>2, MssFacts, Multiples
  <2>2. QED
    BY <1>1, <2>1, MssFacts
<1>3. Pieces(len, what) =
        [i \in 1 .. PieceCount(len) |->
           [len |-> IF i * Mss <= len THEN Mss ELSE len - (i - 1) * Mss, what |-> what]]
  BY DEF Pieces, PieceCount
<1>4. Pieces(len, what) \in [1 .. PieceCount(len) -> PieceRec]
  BY <1>2, <1>3 DEF PieceRec
<1>5. Pieces(len, what) \in Seq(PieceRec) /\ Len(Pieces(len, what)) = PieceCount(len)
  BY <1>1, <1>4, SeqOfFun
<1>6. ASSUME NEW i \in 1 .. PieceCount(len)
      PROVE  Pieces(len, what)[i] =
               [len |-> IF i * Mss <= len THEN Mss ELSE len - (i - 1) * Mss, what |-> what]
  BY <1>3, <1>6, Zenon
<1>7. QED
  BY <1>5, <1>6

(* What is left of a reply when n pieces of it have been read.             *)
Rest(len, what, n) == SubSeq(Pieces(len, what), n + 1, Len(Pieces(len, what)))

LEMMA RestFacts ==
  ASSUME NEW len \in Nat, len > 0, NEW what \in Seq(BOOLEAN),
         NEW n \in Nat, n < PieceCount(len)
  PROVE  /\ Rest(len, what, n) \in Seq(PieceRec)
         /\ Rest(len, what, n) # << >>
         /\ Rest(len, what, n)[1].what = what
         /\ Rest(len, what, n)[1].len = IF (n + 1) * Mss <= len THEN Mss ELSE len - n * Mss
         /\ Tail(Rest(len, what, n)) = Rest(len, what, n + 1)
<1> DEFINE s == Pieces(len, what)
           N == PieceCount(len)
<1>1. /\ s \in Seq(PieceRec) /\ Len(s) = N /\ N \in Nat /\ n + 1 \in 1 .. N
      /\ s[n + 1].what = what
      /\ s[n + 1].len = IF (n + 1) * Mss <= len THEN Mss ELSE len - n * Mss
  <2>1. PICK m \in 1 .. PieceCount(len) : m = n + 1 /\ m - 1 = n
    BY CountFacts
  <2>2. /\ s \in Seq(PieceRec) /\ Len(s) = N /\ N \in Nat
        /\ s[m].what = what
        /\ s[m].len = IF m * Mss <= len THEN Mss ELSE len - (m - 1) * Mss
    BY PieceFacts, CountFacts
  <2>3. QED
    BY <2>1, <2>2
<1>2. Rest(len, what, n) = SubSeq(s, n + 1, N) /\ Rest(len, what, n + 1) = SubSeq(s, n + 2, N)
  BY <1>1 DEF Rest
<1> HIDE DEF s, N
<1>3. /\ SubSeq(s, n + 1, N) \in Seq(PieceRec) /\ Len(SubSeq(s, n + 1, N)) = N - n
      /\ \A i \in 1 .. N - n : SubSeq(s, n + 1, N)[i] = s[n + i]
  BY <1>1, SubSeqProperties
<1>4. Tail(SubSeq(s, n + 1, N)) = SubSeq(s, n + 2, N)
  <2>1. N \in (n + 1) .. Len(s) /\ n + 1 \in 1 .. Len(s)
    BY <1>1
  <2>2. Tail(SubSeq(s, n + 1, N)) = SubSeq(s, (n + 1) + 1, N)
    BY <1>1, <2>1, HeadTailOfSubSeq, Zenon
  <2>3. (n + 1) + 1 = n + 2
    OBVIOUS
  <2>4. QED
    BY <2>2, <2>3
<1>5. 1 \in 1 .. N - n /\ N - n > 0
  BY <1>1
<1>6. SubSeq(s, n + 1, N) # << >> /\ SubSeq(s, n + 1, N)[1] = s[n + 1]
  <2>1. Len(SubSeq(s, n + 1, N)) # 0
    BY <1>3, <1>5
  <2>2. SubSeq(s, n + 1, N) # << >>
    BY <2>1, NonEmpty
  <2>3. SubSeq(s, n + 1, N)[1] = s[n + 1]
    BY <1>3, <1>5
  <2>4. QED
    BY <2>2, <2>3
<1>7. QED
  BY <1>1, <1>2, <1>3, <1>4, <1>6

LEMMA RestEnds ==
  ASSUME NEW len \in Nat, len > 0, NEW what \in Seq(BOOLEAN)
  PROVE  /\ Rest(len, what, PieceCount(len)) = << >>
         /\ Rest(len, what, 0) = Pieces(len, what)
<1> DEFINE s == Pieces(len, what)
<1>1. s \in Seq(PieceRec) /\ Len(s) = PieceCount(len) /\ PieceCount(len) \in Nat
  BY PieceFacts, CountFacts
<1>2. QED
  BY <1>1, SubSeqProperties DEF Rest

-----------------------------------------------------------------------------
(* What client c sends while it waits for an answer.                       *)
RequestOf(c) ==
  IF cl[c].pc = "putWait" THEN [len |-> ItemSize, keys |-> << KeyOf[c][cl[c].n + 1] >>]
  ELSE IF cl[c].pc = "getWait"
  THEN [len |-> NumBatch * KeySize,
        keys |-> SubSeq(KeyOf[c], cl[c].n + 1, cl[c].n + NumBatch)]
  ELSE [len |-> 2 * KeySize, keys |-> << KeyOf[c][1], KeyOf[c][1] >>]

(* The client's registers: where it is in its phase, and how much of a     *)
(* reply it has.                                                           *)
PhaseAt(c) ==
  /\ cl[c].pc = "new" => cl[c].n = 0 /\ cl[c].ins = 0
  /\ cl[c].pc \in {"put", "putWait"} => cl[c].n < NumPut /\ cl[c].ins <= cl[c].n
  /\ cl[c].pc \in {"get", "getWait"} =>
       cl[c].n < NumGet /\ \E a \in Nat : cl[c].n = a * NumBatch
  /\ cl[c].pc \in {"scan", "scanWait"} => cl[c].n < NumScan /\ cl[c].scans <= cl[c].n
  /\ cl[c].pc \in {"new", "put", "putWait", "get", "getWait"} => cl[c].scans = 0
  /\ cl[c].ins <= NumPut /\ cl[c].scans <= NumScan
  /\ cl[c].pc \in {"new", "put", "putWait", "get", "scan"} => cl[c].tot = 0
  /\ cl[c].tot >= -1 /\ (Waiting(c) => cl[c].tot < Expected(c))

(* The connection fits the place where the client is.                      *)
LinkAt(c) ==
  /\ cl[c].pc \notin {"new", "exit"} => conn[c].thread \in Server
  /\ server = "up" =>
       /\ conn[c].fd = "open" /\ conn[c].state \in {"none", "open"}
       /\ cl[c].pc # "exit"
       /\ cl[c].pc = "new" => conn[c].state = "none"
       /\ cl[c].pc \notin {"new", "done"} => conn[c].state = "open"
  /\ server = "down" => conn[c].state # "open"
  /\ conn[c].state = "none" => cl[c].pc \in {"new", "done", "exit"}

Idle(c)      == ~Waiting(c) /\ ~Served(c) /\ conn[c].up = << >> /\ conn[c].down = << >>
Asking(c)    == /\ Waiting(c) /\ ~Served(c) /\ cl[c].tot = 0
                /\ conn[c].up = << RequestOf(c) >> /\ conn[c].down = << >>
Putting(c)   == /\ cl[c].pc = "putWait" /\ Served(c) /\ cl[c].tot = 0
                /\ conn[c].up = << >> /\ conn[c].down = << >>
Answered(c)  == /\ Waiting(c) /\ ~Served(c) /\ conn[c].up = << >>
                /\ conn[c].down # << >> /\ RestComes(c)
                /\ conn[c].fd = "open" /\ conn[c].state \in {"open", "fin"}
(* Only a server that has stopped loses a request or its answer.           *)
Lost(c)      == server = "down" /\ conn[c].up = << >> /\ conn[c].down = << >>

StepAt(c) ==
  cl[c].pc # "exit" => Idle(c) \/ Asking(c) \/ Putting(c) \/ Answered(c) \/ Lost(c)

(* Once the server is down nothing is on the way to it.                    *)
UpAt(c) == server = "down" => conn[c].up = << >>

(* A thread that is in insert is there for the client that waits for it.   *)
ServedAt(s) ==
  \A c \in Client : server = "up" /\ serving[s] = c =>
    /\ cl[c].pc = "putWait" /\ conn[c].thread = s
    /\ log[s] # << >> /\ log[s][Len(log[s])] = KeyOf[c][cl[c].n + 1]

ClientInv(c) == PhaseAt(c) /\ LinkAt(c) /\ StepAt(c) /\ UpAt(c)

NetInv ==
  /\ TypeInv /\ NetTypes
  /\ \A c \in Client : ClientInv(c)
  /\ \A s \in Server : ServedAt(s)

-----------------------------------------------------------------------------
(* Numbers.                                                                *)

LEMMA SizeFacts ==
  /\ NumPut \in Nat /\ NumPut > 0 /\ NumGet \in Nat /\ NumGet > 0 /\ NumGet <= NumPut
  /\ NumScan \in Nat /\ NumScan > 0
  /\ NumBatch \in Nat /\ NumBatch > 0 /\ NumBatch # 2 /\ NumBatch # 5
  /\ ScanRange \in Nat /\ ScanRange >= 2
  /\ KeySize = 64 /\ ValueSize = 256 /\ ReplySize = 50 /\ ItemSize = 320
  BY NetAssumption DEF KeySize, ValueSize, ReplySize, ItemSize

(* The gets are sent in full batches.                                      *)
LEMMA BatchFacts ==
  ASSUME NEW n \in Nat, n < NumGet, NEW a \in Nat, n = a * NumBatch
  PROVE  n + NumBatch <= NumGet /\ n + NumBatch = (a + 1) * NumBatch
<1>1. PICK b \in Nat : NumGet = b * NumBatch
  BY NetAssumption
<1>2. a < b
  BY <1>1, SizeFacts
<1>3. a + 1 <= b /\ (a + 1) * NumBatch <= b * NumBatch
  BY <1>2, SizeFacts
<1>4. (a + 1) * NumBatch = a * NumBatch + NumBatch
  BY SizeFacts
<1>5. QED
  BY <1>1, <1>3, <1>4, SizeFacts

LEMMA ClientTypes ==
  ASSUME NetTypes, NEW c \in Client
  PROVE  /\ conn[c] \in Connection /\ cl[c] \in ClientRec
         /\ conn[c].thread \in Server \cup {None}
         /\ conn[c].state \in {"none", "open", "fin", "rst", "dead"}
         /\ conn[c].fd \in {"open", "closed"}
         /\ conn[c].up \in Seq(Req) /\ conn[c].down \in Seq(PieceRec)
         /\ cl[c].pc \in {"new", "put", "putWait", "get", "getWait", "scan",
                          "scanWait", "done", "exit"}
         /\ cl[c].n \in Nat /\ cl[c].tot \in Int /\ cl[c].ins \in Nat
         /\ cl[c].missed \subseteq Key /\ cl[c].scans \in Nat
  BY DEF NetTypes, Connection, ClientRec

Places == {"new", "put", "putWait", "get", "getWait", "scan", "scanWait", "done", "exit"}

LEMMA TotFacts ==
  ASSUME NEW r \in ClientRec, NEW t \in Int
  PROVE  /\ [r EXCEPT !.tot = t] \in ClientRec
         /\ [r EXCEPT !.tot = t].pc = r.pc /\ [r EXCEPT !.tot = t].n = r.n
         /\ [r EXCEPT !.tot = t].tot = t /\ [r EXCEPT !.tot = t].ins = r.ins
         /\ [r EXCEPT !.tot = t].missed = r.missed /\ [r EXCEPT !.tot = t].scans = r.scans
  BY DEF ClientRec

LEMMA ConnFacts ==
  ASSUME NEW k \in Connection, NEW D \in Seq(PieceRec), NEW U \in Seq(Req),
         NEW st \in {"none", "open", "fin", "rst", "dead"}
  PROVE  /\ [k EXCEPT !.down = D] \in Connection
         /\ [k EXCEPT !.down = D].thread = k.thread /\ [k EXCEPT !.down = D].state = k.state
         /\ [k EXCEPT !.down = D].fd = k.fd /\ [k EXCEPT !.down = D].up = k.up
         /\ [k EXCEPT !.down = D].down = D
         /\ [k EXCEPT !.up = U] \in Connection
         /\ [k EXCEPT !.up = U].thread = k.thread /\ [k EXCEPT !.up = U].state = k.state
         /\ [k EXCEPT !.up = U].fd = k.fd /\ [k EXCEPT !.up = U].up = U
         /\ [k EXCEPT !.up = U].down = k.down
         /\ [k EXCEPT !.state = st] \in Connection
         /\ [k EXCEPT !.state = st].thread = k.thread /\ [k EXCEPT !.state = st].state = st
         /\ [k EXCEPT !.state = st].fd = k.fd /\ [k EXCEPT !.state = st].up = k.up
         /\ [k EXCEPT !.state = st].down = k.down
         /\ [k EXCEPT !.fd = "closed"] \in Connection
         /\ [k EXCEPT !.fd = "closed"].thread = k.thread /\ [k EXCEPT !.fd = "closed"].state = k.state
         /\ [k EXCEPT !.fd = "closed"].fd = "closed" /\ [k EXCEPT !.fd = "closed"].up = k.up
         /\ [k EXCEPT !.fd = "closed"].down = k.down
  BY DEF Connection

LEMMA PlacedFacts ==
  ASSUME NetTypes, NEW c \in Client, NEW place,
         place[1] \in Places, place[2] \in Nat
  PROVE  /\ Placed(c, place) \in ClientRec
         /\ Placed(c, place).pc = place[1] /\ Placed(c, place).n = place[2]
         /\ Placed(c, place).tot = 0 /\ Placed(c, place).ins = cl[c].ins
         /\ Placed(c, place).missed = cl[c].missed /\ Placed(c, place).scans = cl[c].scans
<1> DEFINE q1 == [cl[c] EXCEPT !.pc = place[1]]
           q2 == [q1 EXCEPT !.n = place[2]]
           q3 == [q2 EXCEPT !.tot = 0]
<1>0. cl[c] \in ClientRec
  BY DEF NetTypes
<1>1. /\ q1 \in ClientRec /\ q1.pc = place[1] /\ q1.ins = cl[c].ins
      /\ q1.missed = cl[c].missed /\ q1.scans = cl[c].scans
  BY <1>0 DEF ClientRec, Places
<1> HIDE DEF q1
<1>2. /\ q2 \in ClientRec /\ q2.pc = place[1] /\ q2.n = place[2] /\ q2.ins = cl[c].ins
      /\ q2.missed = cl[c].missed /\ q2.scans = cl[c].scans
  BY <1>1 DEF ClientRec, Places
<1> HIDE DEF q2
<1>3. /\ q3 \in ClientRec /\ q3.pc = place[1] /\ q3.n = place[2] /\ q3.ins = cl[c].ins
      /\ q3.missed = cl[c].missed /\ q3.scans = cl[c].scans /\ q3.tot = 0
  BY <1>2 DEF ClientRec, Places
<1> HIDE DEF q3
<1>4. Placed(c, place) = q3
  BY DEF q1, q2, q3, Placed
<1>5. QED
  BY <1>3, <1>4

LEMMA NewClient ==
  ASSUME NetTypes, NEW c \in Client, NEW r \in ClientRec, cl' = [cl EXCEPT ![c] = r]
  PROVE  /\ cl'[c] = r /\ cl' \in [Client -> ClientRec]
         /\ \A d \in Client \ {c} : cl'[d] = cl[d]
  BY DEF NetTypes

LEMMA NewConn ==
  ASSUME NetTypes, NEW c \in Client, NEW k \in Connection, conn' = [conn EXCEPT ![c] = k]
  PROVE  /\ conn'[c] = k /\ conn' \in [Client -> Connection]
         /\ \A d \in Client \ {c} : conn'[d] = conn[d]
  BY DEF NetTypes

LEMMA KeyTypes ==
  ASSUME NEW c \in Client
  PROVE  /\ KeyOf[c] \in Seq(Key) /\ Len(KeyOf[c]) = NumPut
         /\ \A i \in 1 .. NumPut : KeyOf[c][i] \in Key
  BY NetAssumption, SizeFacts, SeqOfFun

(* What a client in its gets waits for.                                    *)
LEMMA GetFacts ==
  ASSUME NetTypes, NEW c \in Client, PhaseAt(c), cl[c].pc \in {"get", "getWait"}
  PROVE  /\ Batch(c) = NumBatch /\ cl[c].n + NumBatch <= NumGet
         /\ \E a \in Nat : cl[c].n + NumBatch = a * NumBatch
         /\ SubSeq(KeyOf[c], cl[c].n + 1, cl[c].n + NumBatch) \in Seq(Key)
         /\ Len(SubSeq(KeyOf[c], cl[c].n + 1, cl[c].n + NumBatch)) = NumBatch
         /\ \A i \in 1 .. NumBatch :
              SubSeq(KeyOf[c], cl[c].n + 1, cl[c].n + NumBatch)[i] = KeyOf[c][cl[c].n + i]
<1>0. PICK n \in Nat : n = cl[c].n /\ n < NumGet
  BY ClientTypes DEF PhaseAt
<1>1. PICK a \in Nat : n = a * NumBatch
  BY <1>0 DEF PhaseAt
<1>2. n + NumBatch <= NumGet /\ n + NumBatch = (a + 1) * NumBatch
  BY <1>0, <1>1, BatchFacts
<1>3. Batch(c) = NumBatch
  BY <1>0, <1>2, SizeFacts DEF Batch
<1>4. /\ SubSeq(KeyOf[c], n + 1, n + NumBatch) \in Seq(Key)
      /\ Len(SubSeq(KeyOf[c], n + 1, n + NumBatch)) = NumBatch
      /\ \A i \in 1 .. NumBatch :
           SubSeq(KeyOf[c], n + 1, n + NumBatch)[i] = KeyOf[c][n + i]
  <2>1. /\ n + 1 \in 1 .. NumPut + 1 /\ n + NumBatch \in n .. NumPut
        /\ (n + NumBatch) - (n + 1) + 1 = NumBatch
    BY <1>2, SizeFacts
  <2>2. \A i \in 1 .. NumBatch : (n + 1) + i - 1 = n + i
    BY SizeFacts
  <2>3. QED
    BY <2>1, <2>2, KeyTypes, SizeFacts, SubSeqProperties
<1>5. QED
  BY <1>0, <1>2, <1>3, <1>4

LEMMA ExpectedFacts ==
  ASSUME NetTypes, NEW c \in Client, PhaseAt(c), Waiting(c)
  PROVE  /\ Expected(c) \in Nat /\ Expected(c) > 0
         /\ Expected(c) = IF cl[c].pc = "getWait" THEN NumBatch * ValueSize
                          ELSE IF cl[c].pc = "scanWait" THEN (ScanRange - 1) * ValueSize
                          ELSE ReplySize
         /\ RequestOf(c) \in Req /\ RequestOf(c).keys # << >>
         /\ RequestOf(c).len = ItemSize <=> cl[c].pc = "putWait"
         /\ RequestOf(c).len = NumBatch * KeySize <=> cl[c].pc = "getWait"
         /\ RequestOf(c).len = 2 * KeySize <=> cl[c].pc = "scanWait"
<1>1. CASE cl[c].pc = "getWait"
  <2>1. /\ Batch(c) = NumBatch
        /\ SubSeq(KeyOf[c], cl[c].n + 1, cl[c].n + NumBatch) \in Seq(Key)
        /\ Len(SubSeq(KeyOf[c], cl[c].n + 1, cl[c].n + NumBatch)) = NumBatch
    BY <1>1, GetFacts
  <2>2. SubSeq(KeyOf[c], cl[c].n + 1, cl[c].n + NumBatch) # << >>
    <3>1. Len(SubSeq(KeyOf[c], cl[c].n + 1, cl[c].n + NumBatch)) # 0
      BY <2>1, SizeFacts
    <3>2. QED
      BY <3>1, NonEmpty, Zenon
  <2>3. RequestOf(c) = [len |-> NumBatch * KeySize,
                        keys |-> SubSeq(KeyOf[c], cl[c].n + 1, cl[c].n + NumBatch)]
    BY <1>1 DEF RequestOf
  <2>4. RequestOf(c) \in Req /\ RequestOf(c).keys # << >>
    BY <2>1, <2>2, <2>3, SizeFacts DEF Req
  <2>5. /\ NumBatch * KeySize # ItemSize /\ NumBatch * KeySize # 2 * KeySize
        /\ NumBatch * ValueSize \in Nat /\ NumBatch * ValueSize > 0
    BY SizeFacts
  <2>6. Expected(c) = NumBatch * ValueSize
    BY <1>1, <2>1 DEF Expected
  <2>7. RequestOf(c).len = NumBatch * KeySize
    BY <2>3
  <2>8. QED
    BY <1>1, <2>4, <2>5, <2>6, <2>7
<1>2. CASE cl[c].pc = "putWait"
  <2>1. KeyOf[c][cl[c].n + 1] \in Key
    BY <1>2, ClientTypes, KeyTypes, SizeFacts DEF PhaseAt
  <2>2. RequestOf(c) = [len |-> ItemSize, keys |-> << KeyOf[c][cl[c].n + 1] >>]
    BY <1>2 DEF RequestOf
  <2>3. RequestOf(c) \in Req /\ RequestOf(c).keys # << >>
    BY <2>1, <2>2, SizeFacts DEF Req
  <2>4. QED
    BY <1>2, <2>2, <2>3, SizeFacts DEF Expected
<1>3. CASE cl[c].pc = "scanWait"
  <2>1. KeyOf[c][1] \in Key
    BY KeyTypes, SizeFacts
  <2>2. RequestOf(c) = [len |-> 2 * KeySize, keys |-> << KeyOf[c][1], KeyOf[c][1] >>]
    BY <1>3 DEF RequestOf
  <2>3. RequestOf(c) \in Req /\ RequestOf(c).keys # << >>
    BY <2>1, <2>2, SizeFacts DEF Req
  <2>4. QED
    BY <1>3, <2>2, <2>3, SizeFacts DEF Expected
<1>4. QED
  BY <1>1, <1>2, <1>3 DEF Waiting

-----------------------------------------------------------------------------
(* Steps that leave a client alone.                                        *)

LEMMA ClientFrame ==
  ASSUME NEW c \in Client, ClientInv(c), server' = server,
         cl'[c] = cl[c], conn'[c] = conn[c], Served(c)' <=> Served(c)
  PROVE  ClientInv(c)'
<1>1. /\ Waiting(c)' <=> Waiting(c)
      /\ Batch(c)' = Batch(c)
      /\ RequestOf(c)' = RequestOf(c)
  BY DEF Waiting, Batch, RequestOf
<1>2. Expected(c)' = Expected(c)
  BY <1>1 DEF Expected
<1>3. RestComes(c)' <=> RestComes(c)
  BY <1>2 DEF RestComes
<1>4. PhaseAt(c)' /\ LinkAt(c)' /\ UpAt(c)'
  BY <1>1, <1>2 DEF ClientInv, PhaseAt, LinkAt, UpAt
<1>5. StepAt(c)'
  BY <1>1, <1>3 DEF ClientInv, StepAt, Idle, Asking, Putting, Answered, Lost
<1>6. QED
  BY <1>4, <1>5 DEF ClientInv

(* A step of one client, which no thread serves.                           *)
LEMMA ClientActs ==
  ASSUME NetInv, UNCHANGED <<vars, server, serving>>, NetTypes',
         NEW c \in Client, server = "up" => ~Served(c), ClientInv(c)',
         \A d \in Client \ {c} : cl'[d] = cl[d] /\ conn'[d] = conn[d]
  PROVE  NetInv'
<1>1. TypeInv'
  BY DEF NetInv, vars, TypeInv, TypeOK, Lengths
<1>2. ASSUME NEW d \in Client PROVE ClientInv(d)'
  <2>1. CASE d = c
    BY <2>1
  <2>2. CASE d # c
    <3>1. cl'[d] = cl[d] /\ conn'[d] = conn[d] /\ (Served(d)' <=> Served(d))
      BY <2>2 DEF Served
    <3>2. ClientInv(d)
      BY DEF NetInv
    <3>3. QED
      BY <3>1, <3>2, ClientFrame
  <2>3. QED
    BY <2>1, <2>2
<1>3. ASSUME NEW s \in Server, NEW d \in Client, server' = "up", serving'[s] = d
      PROVE  /\ cl'[d].pc = "putWait" /\ conn'[d].thread = s
             /\ log'[s] # << >> /\ log'[s][Len(log'[s])] = KeyOf[d][cl'[d].n + 1]
  <2>1. server = "up" /\ serving[s] = d /\ log'[s] = log[s]
    BY <1>3 DEF vars
  <2>2. d # c
    BY <2>1 DEF Served
  <2>3. /\ cl[d].pc = "putWait" /\ conn[d].thread = s
        /\ log[s] # << >> /\ log[s][Len(log[s])] = KeyOf[d][cl[d].n + 1]
    BY <2>1 DEF NetInv, ServedAt
  <2>4. QED
    BY <2>1, <2>2, <2>3
<1>4. \A s \in Server : ServedAt(s)'
  BY <1>3 DEF ServedAt
<1>5. QED
  BY <1>1, <1>2, <1>4 DEF NetInv

(* What an answered client finds.                                          *)
LEMMA AnsweredFacts ==
  ASSUME NetInv, NEW c \in Client, Answered(c)
  PROVE  \E n \in Nat, what \in Seq(BOOLEAN) :
           /\ cl[c].tot = n * Mss /\ n < PieceCount(Expected(c))
           /\ conn[c].down = Rest(Expected(c), what, n)
           /\ Piece(c).what = what /\ conn[c].down[1].what = what
           /\ Piece(c).len \in Nat
           /\ cl[c].tot + Piece(c).len = IF (n + 1) * Mss <= Expected(c) THEN (n + 1) * Mss
                                         ELSE Expected(c)
           /\ Tail(conn[c].down) = Rest(Expected(c), what, n + 1)
           /\ (n + 1) * Mss < Expected(c) =>
                /\ n + 1 < PieceCount(Expected(c))
                /\ Tail(conn[c].down) # << >> /\ Tail(conn[c].down)[1].what = what
           /\ (n + 1) * Mss >= Expected(c) => Tail(conn[c].down) = << >>
<1>1. /\ NetTypes /\ PhaseAt(c) /\ Waiting(c)
      /\ conn[c].down \in Seq(PieceRec) /\ conn[c].down # << >>
      /\ cl[c].tot \in Int /\ cl[c].tot < Expected(c)
  BY ClientTypes DEF NetInv, ClientInv, PhaseAt, Answered
<1>2. PICK len \in Nat : len = Expected(c) /\ len > 0
  BY <1>1, ExpectedFacts
<1>3. PICK what \in Seq(BOOLEAN) : what = conn[c].down[1].what
  <2>1. conn[c].down[1] \in PieceRec
    BY <1>1
  <2>2. QED
    BY <2>1 DEF PieceRec
<1>4. PICK n \in 0 .. cl[c].tot :
        /\ cl[c].tot = n * Mss
        /\ conn[c].down = SubSeq(Pieces(len, what), n + 1, Len(Pieces(len, what)))
  BY <1>2, <1>3 DEF Answered, RestComes
<1>5. n \in Nat /\ cl[c].tot = n * Mss /\ conn[c].down = Rest(len, what, n)
  BY <1>4 DEF Rest
<1>6. PieceCount(len) \in Nat /\ len <= PieceCount(len) * Mss /\ PieceCount(len) > 0
      /\ (PieceCount(len) - 1) * Mss < len
  BY <1>2, CountFacts
<1>7. n < PieceCount(len)
  BY <1>1, <1>2, <1>5, <1>6, MssFacts, SMTT(30)
<1>8. /\ conn[c].down[1].len = IF (n + 1) * Mss <= len THEN Mss ELSE len - n * Mss
      /\ Tail(conn[c].down) = Rest(len, what, n + 1)
  BY <1>2, <1>5, <1>7, RestFacts
<1>9. Piece(c) = conn[c].down[1]
  BY <1>1 DEF Piece
<1>10. (n + 1) * Mss = n * Mss + Mss
  BY <1>5, MssFacts
<1>11. /\ Piece(c).len \in Nat
       /\ cl[c].tot + Piece(c).len = IF (n + 1) * Mss <= len THEN (n + 1) * Mss ELSE len
  BY <1>1, <1>2, <1>5, <1>8, <1>9, <1>10, MssFacts
<1>12. ASSUME (n + 1) * Mss < len
       PROVE  /\ n + 1 < PieceCount(len)
              /\ Rest(len, what, n + 1) # << >> /\ Rest(len, what, n + 1)[1].what = what
  <2>1. n + 1 < PieceCount(len)
    BY <1>2, <1>5, <1>7, <1>12, LastPiece
  <2>2. QED
    BY <1>2, <1>5, <2>1, RestFacts
<1>13. ASSUME (n + 1) * Mss >= len
       PROVE  Rest(len, what, n + 1) = << >>
  <2>1. n + 1 = PieceCount(len)
    BY <1>2, <1>5, <1>7, <1>13, LastPiece
  <2>2. QED
    BY <1>2, <2>1, RestEnds
<1>14. QED
  BY <1>2, <1>3, <1>5, <1>7, <1>8, <1>9, <1>11, <1>12, <1>13

-----------------------------------------------------------------------------
(* The steps of a client.                                                  *)

LEMMA ConnectStep ==
  ASSUME NetInv, NEW c \in Client, NEW s \in Server, Connect(c, s)
  PROVE  NetInv'
<1>1. /\ NetTypes /\ ClientInv(c) /\ server = "up" /\ cl[c].pc = "new"
      /\ UNCHANGED <<vars, server, serving>>
  BY DEF NetInv, Connect
<1>2. Idle(c) /\ conn[c].fd = "open" /\ conn[c].state = "none"
  BY <1>1 DEF ClientInv, StepAt, LinkAt, Asking, Putting, Answered, Lost, Waiting
<1>3. /\ conn'[c] = [conn[c] EXCEPT !.thread = s, !.state = "open"]
      /\ cl'[c] = [cl[c] EXCEPT !.pc = "put"]
      /\ \A d \in Client \ {c} : cl'[d] = cl[d] /\ conn'[d] = conn[d]
  BY <1>1 DEF Connect, NetTypes
<1>4. NetTypes'
  <2>1. conn[c] \in Connection /\ cl[c] \in ClientRec
    BY <1>1, ClientTypes
  <2>2. conn'[c] \in Connection
    BY <1>3, <2>1 DEF Connection
  <2>3. cl'[c] \in ClientRec
    BY <1>3, <2>1 DEF ClientRec
  <2>4. \A d \in Client : conn'[d] \in Connection /\ cl'[d] \in ClientRec
    BY <1>1, <1>3, <2>2, <2>3, ClientTypes
  <2>5. /\ conn' = [d \in Client |-> conn'[d]]
        /\ cl' = [d \in Client |-> cl'[d]]
    BY <1>1 DEF Connect, NetTypes
  <2>6. conn' \in [Client -> Connection] /\ cl' \in [Client -> ClientRec]
    BY <2>4, <2>5
  <2>7. QED
    BY <1>1, <2>6 DEF NetTypes
<1>5. /\ cl'[c].pc = "put" /\ cl'[c].n = cl[c].n /\ cl'[c].tot = cl[c].tot
      /\ cl'[c].ins = cl[c].ins /\ cl'[c].scans = cl[c].scans
      /\ conn'[c].thread = s /\ conn'[c].state = "open" /\ conn'[c].fd = "open"
      /\ conn'[c].up = << >> /\ conn'[c].down = << >>
  BY <1>1, <1>2, <1>3, ClientTypes DEF Connection, ClientRec, Idle
<1>6. ClientInv(c)'
  <2>1. PhaseAt(c)'
    BY <1>1, <1>5, SizeFacts DEF ClientInv, PhaseAt, Waiting
  <2>2. LinkAt(c)' /\ UpAt(c)'
    BY <1>1, <1>5 DEF LinkAt, UpAt
  <2>3. StepAt(c)'
    BY <1>1, <1>2, <1>5 DEF StepAt, Idle, Waiting, Served
  <2>4. QED
    BY <2>1, <2>2, <2>3 DEF ClientInv
<1>7. QED
  BY <1>1, <1>2, <1>3, <1>4, <1>6, ClientActs DEF Idle

LEMMA ExitStep ==
  ASSUME NetInv, server = "down", UNCHANGED <<vars, server, serving, conn>>,
         cl' = [d \in Client |-> [cl[d] EXCEPT !.pc = "exit"]]
  PROVE  NetInv'
<1>1. TypeInv'
  BY DEF NetInv, vars, TypeInv, TypeOK, Lengths
<1>2. NetTypes'
  <2>1. cl' \in [Client -> ClientRec]
    BY ClientTypes DEF NetInv, ClientRec
  <2>2. QED
    BY <2>1 DEF NetInv, NetTypes
<1>3. ASSUME NEW c \in Client PROVE ClientInv(c)'
  <2>1. /\ cl'[c].pc = "exit" /\ cl'[c].tot = cl[c].tot
        /\ cl'[c].ins = cl[c].ins /\ cl'[c].scans = cl[c].scans
    BY ClientTypes DEF NetInv, ClientRec
  <2>2. ClientInv(c)
    BY DEF NetInv
  <2>3. QED
    BY <2>1, <2>2 DEF ClientInv, PhaseAt, LinkAt, StepAt, UpAt, Waiting
<1>4. \A s \in Server : ServedAt(s)'
  BY DEF ServedAt
<1>5. QED
  BY <1>1, <1>2, <1>3, <1>4 DEF NetInv

LEMMA ConnectFailsStep ==
  ASSUME NetInv, NEW c \in Client, ConnectFails(c)
  PROVE  NetInv'
  BY ExitStep DEF ConnectFails

LEMMA SendFailsStep ==
  ASSUME NetInv, NEW c \in Client, SendFails(c)
  PROVE  NetInv'
<1>1. server = "down"
  BY DEF SendFails, NetInv, NetTypes, ClientInv, LinkAt
<1>2. QED
  BY <1>1, ExitStep DEF SendFails

(* A client that sends its request waits for the answer.                   *)
LEMMA SendStep ==
  ASSUME NetInv, NEW c \in Client, SendPut(c) \/ SendGet(c) \/ SendScan(c)
  PROVE  NetInv'
<1>1. /\ NetTypes /\ ClientInv(c) /\ cl[c].pc \in {"put", "get", "scan"}
      /\ UNCHANGED <<vars, server, serving>> /\ conn[c].fd = "open"
  BY DEF NetInv, SendPut, SendGet, SendScan, Write
<1>2. /\ ~Waiting(c) /\ cl[c].tot = 0
      /\ conn[c].up = << >> /\ conn[c].down = << >>
      /\ server = "up" => ~Served(c)
  BY <1>1 DEF ClientInv, StepAt, Idle, Asking, Putting, Answered, Lost, Waiting, PhaseAt
<1>w. PICK wait \in {"putWait", "getWait", "scanWait"} :
        /\ wait = IF cl[c].pc = "put" THEN "putWait"
                  ELSE IF cl[c].pc = "get" THEN "getWait" ELSE "scanWait"
  OBVIOUS
<1>3. cl' = [cl EXCEPT ![c] = [cl[c] EXCEPT !.pc = wait]]
  BY <1>1, <1>w DEF SendPut, SendGet, SendScan
<1>4. /\ cl'[c].pc = IF cl[c].pc = "put" THEN "putWait"
                      ELSE IF cl[c].pc = "get" THEN "getWait" ELSE "scanWait"
      /\ cl'[c].n = cl[c].n /\ cl'[c].tot = cl[c].tot
      /\ cl'[c].ins = cl[c].ins /\ cl'[c].scans = cl[c].scans
      /\ \A d \in Client \ {c} : cl'[d] = cl[d]
      /\ cl' \in [Client -> ClientRec]
  <2>1. PICK r \in ClientRec : r = [cl[c] EXCEPT !.pc = wait]
    BY <1>1, ClientTypes DEF ClientRec
  <2>2. /\ r.pc = wait /\ r.n = cl[c].n /\ r.tot = cl[c].tot
        /\ r.ins = cl[c].ins /\ r.scans = cl[c].scans
    BY <1>1, <2>1, ClientTypes DEF ClientRec
  <2>3. /\ cl'[c] = r /\ cl' \in [Client -> ClientRec]
        /\ \A d \in Client \ {c} : cl'[d] = cl[d]
    BY <1>1, <1>3, <2>1, NewClient
  <2>4. QED
    BY <1>w, <2>2, <2>3
<1>5. Waiting(c)' /\ (Served(c)' <=> Served(c)) /\ cl'[c].pc # "exit"
  BY <1>1, <1>4 DEF Waiting, Served
<1>6. PhaseAt(c)'
  <2>1. Batch(c)' = Batch(c) /\ (cl[c].pc = "get" => Batch(c) = NumBatch)
    BY <1>1, <1>4, GetFacts DEF Batch, ClientInv
  <2>2. Expected(c)' > 0
    <3>1. NumBatch * ValueSize > 0 /\ (ScanRange - 1) * ValueSize > 0 /\ ReplySize > 0
      BY SizeFacts
    <3>2. QED
      BY <1>1, <1>4, <2>1, <3>1 DEF Expected
  <2>3. /\ cl'[c].pc = "putWait" => cl[c].pc = "put"
        /\ cl'[c].pc = "getWait" => cl[c].pc = "get"
        /\ cl'[c].pc = "scanWait" => cl[c].pc = "scan"
    BY <1>1, <1>4
  <2>4. QED
    BY <1>1, <1>2, <1>4, <2>2, <2>3 DEF ClientInv, PhaseAt
<1>7. RequestOf(c)' \in Req
  <2>1. RequestOf(c)' =
          IF cl'[c].pc = "putWait" THEN [len |-> ItemSize, keys |-> << KeyOf[c][cl'[c].n + 1] >>]
          ELSE IF cl'[c].pc = "getWait"
          THEN [len |-> NumBatch * KeySize,
                keys |-> SubSeq(KeyOf[c], cl'[c].n + 1, cl'[c].n + NumBatch)]
          ELSE [len |-> 2 * KeySize, keys |-> << KeyOf[c][1], KeyOf[c][1] >>]
    BY DEF RequestOf
  <2>2. cl[c].pc = "put" => KeyOf[c][cl[c].n + 1] \in Key
    BY <1>1, ClientTypes, KeyTypes, SizeFacts DEF ClientInv, PhaseAt
  <2>3. cl[c].pc = "get" => SubSeq(KeyOf[c], cl[c].n + 1, cl[c].n + NumBatch) \in Seq(Key)
    BY <1>1, GetFacts DEF ClientInv
  <2>4. KeyOf[c][1] \in Key
    BY KeyTypes, SizeFacts
  <2>5. ItemSize \in Nat /\ NumBatch * KeySize \in Nat /\ 2 * KeySize \in Nat
    BY SizeFacts
  <2>6. CASE cl[c].pc = "put"
    BY <1>4, <2>1, <2>2, <2>5, <2>6 DEF Req
  <2>7. CASE cl[c].pc = "get"
    BY <1>4, <2>1, <2>3, <2>5, <2>7 DEF Req
  <2>8. CASE cl[c].pc = "scan"
    BY <1>4, <2>1, <2>4, <2>5, <2>8 DEF Req
  <2>9. QED
    BY <1>1, <2>6, <2>7, <2>8
<1>8. CASE conn[c].state = "open"
  <2>1. conn' = [conn EXCEPT ![c].up = Append(@, RequestOf(c)')]
    <3>1. CASE SendPut(c)
      BY <1>4, <1>8, <3>1 DEF SendPut, Write, RequestOf
    <3>2. CASE SendGet(c)
      <4>1. Batch(c) = NumBatch
        BY <1>1, <3>2, GetFacts DEF SendGet, ClientInv
      <4>2. QED
        BY <1>4, <1>8, <3>2, <4>1 DEF SendGet, Write, RequestOf
    <3>3. CASE SendScan(c)
      BY <1>4, <1>8, <3>3 DEF SendScan, Write, RequestOf
    <3>4. QED
      BY <3>1, <3>2, <3>3
  <2>2. PICK r \in Req : r = RequestOf(c)'
    BY <1>7
  <2>k. PICK k \in Connection : k = [conn[c] EXCEPT !.up = << r >>]
    <3>1. << r >> \in Seq(Req)
      OBVIOUS
    <3>2. [conn[c] EXCEPT !.up = << r >>] \in Connection
      BY <1>1, <3>1, ClientTypes DEF Connection
    <3>3. QED
      BY <3>2
  <2>3. conn' = [conn EXCEPT ![c] = k]
    BY <1>1, <1>2, <2>1, <2>2, <2>k DEF NetTypes
  <2>4. /\ conn'[c] = k /\ conn' \in [Client -> Connection]
        /\ \A d \in Client \ {c} : conn'[d] = conn[d]
    BY <1>1, <2>3, NewConn
  <2>5. NetTypes'
    BY <1>1, <1>4, <2>4 DEF NetTypes
  <2>6. /\ conn'[c].thread = conn[c].thread /\ conn'[c].state = "open"
        /\ conn'[c].fd = conn[c].fd /\ conn'[c].down = << >>
        /\ conn'[c].up = << r >>
    BY <1>1, <1>2, <1>8, <2>4, <2>k, ClientTypes DEF Connection
  <2>7. server = "up" /\ server' = "up"
    BY <1>1, <1>8 DEF ClientInv, LinkAt, NetTypes
  <2>8. LinkAt(c)' /\ UpAt(c)'
    BY <1>1, <1>4, <2>6, <2>7 DEF ClientInv, LinkAt, UpAt
  <2>9. StepAt(c)'
    BY <1>2, <1>4, <1>5, <2>2, <2>6, <2>7 DEF StepAt, Asking
  <2>10. QED
    BY <1>1, <1>2, <1>4, <1>6, <2>4, <2>5, <2>8, <2>9, ClientActs DEF ClientInv
<1>9. CASE conn[c].state # "open"
  <2>1. PICK st \in {"fin", "dead"} : conn' = [conn EXCEPT ![c].state = st]
    BY <1>1, <1>9 DEF SendPut, SendGet, SendScan, Write
  <2>2. server = "down" /\ server' = "down"
    BY <1>1, <1>9 DEF ClientInv, LinkAt, NetTypes
  <2>3. /\ conn'[c].thread = conn[c].thread /\ conn'[c].state = st
        /\ conn'[c].down = << >> /\ conn'[c].up = << >>
        /\ \A d \in Client \ {c} : conn'[d] = conn[d]
    BY <1>1, <1>2, <2>1, ClientTypes DEF NetTypes, Connection
  <2>4. NetTypes'
    <3>1. conn' \in [Client -> Connection]
      BY <1>1, <2>1, ClientTypes DEF NetTypes, Connection
    <3>2. QED
      BY <1>1, <1>4, <3>1 DEF NetTypes
  <2>5. LinkAt(c)' /\ UpAt(c)'
    BY <1>1, <1>4, <2>2, <2>3 DEF ClientInv, LinkAt, UpAt
  <2>6. StepAt(c)'
    BY <2>2, <2>3 DEF StepAt, Lost
  <2>7. QED
    BY <1>1, <1>2, <1>4, <1>6, <2>3, <2>4, <2>5, <2>6, ClientActs DEF ClientInv
<1>10. QED
  BY <1>8, <1>9

(* A client that has its answer, or gives up waiting for it, goes on to    *)
(* its next request.                                                       *)
Finishes(c, r) ==
  \/ /\ cl[c].pc = "putWait" /\ r.ins \in {cl[c].ins, cl[c].ins + 1}
     /\ r.missed = cl[c].missed /\ r.scans = cl[c].scans /\ r.tot = 0
     /\ r.pc = IF cl[c].n + 1 < NumPut THEN "put" ELSE "get"
     /\ r.n = IF cl[c].n + 1 < NumPut THEN cl[c].n + 1 ELSE 0
  \/ /\ cl[c].pc = "getWait" /\ r.ins = cl[c].ins /\ r.scans = cl[c].scans /\ r.tot = 0
     /\ r.pc = IF cl[c].n + NumBatch < NumGet THEN "get" ELSE "scan"
     /\ r.n = IF cl[c].n + NumBatch < NumGet THEN cl[c].n + NumBatch ELSE 0
  \/ /\ cl[c].pc = "scanWait" /\ r.ins = cl[c].ins /\ r.scans = cl[c].scans + 1
     /\ r.missed = cl[c].missed /\ r.tot = 0
     /\ r.pc = IF cl[c].n + 1 < NumScan THEN "scan" ELSE "done"
     /\ r.n = cl[c].n + 1

LEMMA FinishPhase ==
  ASSUME NetTypes, NEW c \in Client, PhaseAt(c), Finishes(c, cl'[c])
  PROVE  /\ PhaseAt(c)' /\ ~Waiting(c)' /\ cl[c].pc \in {"putWait", "getWait", "scanWait"}
         /\ cl'[c].pc \in {"put", "get", "scan", "done"}
<1>0. /\ cl[c].n \in Nat /\ cl[c].ins \in Nat /\ cl[c].scans \in Nat
  BY ClientTypes
<1>1. CASE cl[c].pc = "putWait"
  <2>1. 0 = 0 * NumBatch
    BY SizeFacts
  <2>2. QED
    BY <1>0, <1>1, <2>1, SizeFacts DEF Finishes, PhaseAt, Waiting
<1>2. CASE cl[c].pc = "getWait"
  <2>1. \E a \in Nat : cl[c].n + NumBatch = a * NumBatch
    BY <1>2, GetFacts
  <2>2. QED
    BY <1>0, <1>2, <2>1, SizeFacts DEF Finishes, PhaseAt, Waiting
<1>3. CASE cl[c].pc = "scanWait"
  BY <1>0, <1>3, SizeFacts DEF Finishes, PhaseAt, Waiting
<1>4. QED
  BY <1>1, <1>2, <1>3 DEF Finishes

LEMMA FinishStep ==
  ASSUME NetInv, UNCHANGED <<vars, server, serving>>, NEW c \in Client,
         server = "up" => ~Served(c),
         NEW r \in ClientRec, Finishes(c, r), cl' = [cl EXCEPT ![c] = r],
         NEW k \in Connection, conn' = [conn EXCEPT ![c] = k],
         k.thread = conn[c].thread, k.up = << >>, k.down = << >>,
         k.fd = conn[c].fd \/ server = "down",
         k.state = conn[c].state \/ (server = "down" /\ k.state \notin {"open", "none"})
  PROVE  NetInv'
<1>1. NetTypes /\ ClientInv(c)
  BY DEF NetInv
<1>2. /\ cl'[c] = r /\ conn'[c] = k /\ NetTypes'
      /\ \A d \in Client \ {c} : cl'[d] = cl[d] /\ conn'[d] = conn[d]
  BY <1>1, NewClient, NewConn DEF NetTypes
<1>3. /\ PhaseAt(c)' /\ ~Waiting(c)' /\ cl[c].pc \in {"putWait", "getWait", "scanWait"}
      /\ cl'[c].pc \in {"put", "get", "scan", "done"}
  BY <1>1, <1>2, FinishPhase DEF ClientInv
<1>4. LinkAt(c)' /\ UpAt(c)'
  <2>1. /\ conn[c].thread \in Server
        /\ server = "up" => conn[c].fd = "open" /\ conn[c].state = "open"
        /\ server = "down" => conn[c].state # "open"
        /\ conn[c].state # "none"
    BY <1>1, <1>3 DEF ClientInv, LinkAt
  <2>2. /\ conn'[c].thread \in Server
        /\ server = "up" => conn'[c].fd = "open" /\ conn'[c].state = "open"
        /\ server = "down" => conn'[c].state # "open"
        /\ conn'[c].state # "none"
    BY <1>2, <2>1
  <2>3. QED
    BY <1>2, <1>3, <2>2 DEF LinkAt, UpAt
<1>5. StepAt(c)'
  <2>1. server \in {"up", "down"} /\ (Served(c)' <=> Served(c))
    BY <1>1 DEF NetTypes, Served
  <2>2. QED
    BY <1>2, <1>3, <2>1 DEF StepAt, Idle, Lost
<1>6. QED
  BY <1>2, <1>3, <1>4, <1>5, ClientActs DEF ClientInv

LEMMA PutDone ==
  ASSUME NetTypes, NEW c \in Client, cl[c].pc = "putWait",
         NEW m \in {cl[c].ins, cl[c].ins + 1}
  PROVE  /\ [Placed(c, AfterPut(cl[c].n + 1)) EXCEPT !.ins = m] \in ClientRec
         /\ Finishes(c, [Placed(c, AfterPut(cl[c].n + 1)) EXCEPT !.ins = m])
<1> DEFINE place == AfterPut(cl[c].n + 1)
           q == Placed(c, place)
           r == [q EXCEPT !.ins = m]
<1>1. /\ cl[c].n \in Nat /\ cl[c].ins \in Nat /\ m \in Nat
  BY ClientTypes
<1>2. /\ place[1] = IF cl[c].n + 1 < NumPut THEN "put" ELSE "get"
      /\ place[2] = IF cl[c].n + 1 < NumPut THEN cl[c].n + 1 ELSE 0
      /\ place[1] \in Places /\ place[2] \in Nat
  BY <1>1 DEF AfterPut, Places
<1> HIDE DEF place
<1>3. /\ q \in ClientRec /\ q.pc = place[1] /\ q.n = place[2] /\ q.tot = 0
      /\ q.ins = cl[c].ins /\ q.missed = cl[c].missed /\ q.scans = cl[c].scans
  BY <1>2, PlacedFacts
<1> HIDE DEF q
<1>4. /\ r \in ClientRec /\ r.pc = q.pc /\ r.n = q.n /\ r.tot = q.tot
      /\ r.ins = m /\ r.missed = q.missed /\ r.scans = q.scans
  BY <1>1, <1>3 DEF ClientRec
<1> HIDE DEF r
<1>5. Finishes(c, r)
  BY <1>2, <1>3, <1>4 DEF Finishes
<1>6. QED
  BY <1>4, <1>5 DEF r, q, place

LEMMA GetDone ==
  ASSUME NetTypes, NEW c \in Client, PhaseAt(c), cl[c].pc = "getWait",
         NEW M \in SUBSET Key
  PROVE  /\ [Placed(c, AfterGet(cl[c].n + Batch(c))) EXCEPT !.missed = M] \in ClientRec
         /\ Finishes(c, [Placed(c, AfterGet(cl[c].n + Batch(c))) EXCEPT !.missed = M])
         /\ [Placed(c, AfterGet(cl[c].n + Batch(c))) EXCEPT !.missed = M].missed = M
<1> DEFINE place == AfterGet(cl[c].n + Batch(c))
           q == Placed(c, place)
           r == [q EXCEPT !.missed = M]
<1>1. cl[c].n \in Nat /\ Batch(c) = NumBatch /\ NumBatch \in Nat
  BY ClientTypes, GetFacts, SizeFacts
<1>2. /\ place[1] = IF cl[c].n + NumBatch < NumGet THEN "get" ELSE "scan"
      /\ place[2] = IF cl[c].n + NumBatch < NumGet THEN cl[c].n + NumBatch ELSE 0
      /\ place[1] \in Places /\ place[2] \in Nat
  BY <1>1 DEF AfterGet, Places
<1> HIDE DEF place
<1>3. /\ q \in ClientRec /\ q.pc = place[1] /\ q.n = place[2] /\ q.tot = 0
      /\ q.ins = cl[c].ins /\ q.missed = cl[c].missed /\ q.scans = cl[c].scans
  BY <1>2, PlacedFacts
<1> HIDE DEF q
<1>4. /\ r \in ClientRec /\ r.pc = q.pc /\ r.n = q.n /\ r.tot = q.tot
      /\ r.ins = q.ins /\ r.missed = M /\ r.scans = q.scans
  BY <1>3 DEF ClientRec
<1> HIDE DEF r
<1>5. Finishes(c, r)
  BY <1>2, <1>3, <1>4 DEF Finishes
<1>6. QED
  BY <1>4, <1>5 DEF r, q, place

LEMMA ScanDone ==
  ASSUME NetTypes, NEW c \in Client, cl[c].pc = "scanWait"
  PROVE  /\ [Placed(c, AfterScan(cl[c].n + 1)) EXCEPT !.scans = @ + 1] \in ClientRec
         /\ Finishes(c, [Placed(c, AfterScan(cl[c].n + 1)) EXCEPT !.scans = @ + 1])
<1> DEFINE place == AfterScan(cl[c].n + 1)
           q == Placed(c, place)
           r == [q EXCEPT !.scans = @ + 1]
<1>1. cl[c].n \in Nat /\ cl[c].scans \in Nat
  BY ClientTypes
<1>2. /\ place[1] = IF cl[c].n + 1 < NumScan THEN "scan" ELSE "done"
      /\ place[2] = cl[c].n + 1
      /\ place[1] \in Places /\ place[2] \in Nat
  BY <1>1 DEF AfterScan, Places
<1> HIDE DEF place
<1>3. /\ q \in ClientRec /\ q.pc = place[1] /\ q.n = place[2] /\ q.tot = 0
      /\ q.ins = cl[c].ins /\ q.missed = cl[c].missed /\ q.scans = cl[c].scans
  BY <1>2, PlacedFacts
<1> HIDE DEF q
<1>4. /\ r \in ClientRec /\ r.pc = q.pc /\ r.n = q.n /\ r.tot = q.tot
      /\ r.ins = q.ins /\ r.missed = q.missed /\ r.scans = q.scans + 1
  BY <1>1, <1>3 DEF ClientRec
<1> HIDE DEF r
<1>5. Finishes(c, r)
  BY <1>2, <1>3, <1>4 DEF Finishes
<1>6. QED
  BY <1>4, <1>5 DEF r, q, place

(* A client that goes on waiting after its server has stopped.             *)
LEMMA WaitsStep ==
  ASSUME NetInv, UNCHANGED <<vars, server, serving>>, NEW c \in Client,
         server = "down", cl[c].pc \in {"getWait", "scanWait"},
         NEW r \in ClientRec, cl' = [cl EXCEPT ![c] = r],
         r.pc = cl[c].pc, r.n = cl[c].n, r.ins = cl[c].ins, r.missed = cl[c].missed,
         r.scans = cl[c].scans, r.tot >= -1, r.tot <= cl[c].tot,
         NEW k \in Connection, conn' = [conn EXCEPT ![c] = k],
         k.thread = conn[c].thread, k.up = << >>, k.down = << >>,
         k.state \notin {"none", "open"}
  PROVE  NetInv'
<1>1. NetTypes /\ ClientInv(c)
  BY DEF NetInv
<1>2. /\ cl'[c] = r /\ conn'[c] = k /\ NetTypes'
      /\ \A d \in Client \ {c} : cl'[d] = cl[d] /\ conn'[d] = conn[d]
  BY <1>1, NewClient, NewConn DEF NetTypes
<1>3. PhaseAt(c)'
  <2>1. Waiting(c)' /\ Batch(c)' = Batch(c) /\ Expected(c)' = Expected(c)
    BY <1>2 DEF Waiting, Batch, Expected
  <2>2. /\ Expected(c) \in Nat /\ cl[c].tot < Expected(c) /\ cl[c].tot \in Int
    BY <1>1, ExpectedFacts, ClientTypes DEF ClientInv, PhaseAt, Waiting
  <2>3. r.tot \in Int /\ r.tot < Expected(c)
    BY <2>2 DEF ClientRec
  <2>4. QED
    BY <1>1, <1>2, <2>1, <2>2, <2>3 DEF ClientInv, PhaseAt
<1>4. LinkAt(c)' /\ UpAt(c)'
  BY <1>1, <1>2 DEF ClientInv, LinkAt, UpAt, Waiting
<1>5. StepAt(c)'
  BY <1>2 DEF StepAt, Lost
<1>6. QED
  BY <1>2, <1>3, <1>4, <1>5, ClientActs DEF ClientInv

LEMMA TakesPiece ==
  ASSUME NEW c \in Client, NEW max, Take(c, max), Piece(c).len <= max
  PROVE  conn' = [conn EXCEPT ![c] = [conn[c] EXCEPT !.down = Tail(conn[c].down)]]
  BY DEF Take

(* The reply to a put is one piece.                                        *)
LEMMA TakePutReplyFacts ==
  ASSUME NetInv, NEW c \in Client, TakePutReply(c)
  PROVE  /\ UNCHANGED <<vars, server, serving>> /\ NetTypes /\ Answered(c)
         /\ \E r \in ClientRec : Finishes(c, r) /\ cl' = [cl EXCEPT ![c] = r]
         /\ \E k \in Connection :
              /\ conn' = [conn EXCEPT ![c] = k]
              /\ k.thread = conn[c].thread /\ k.state = conn[c].state
              /\ k.fd = conn[c].fd /\ k.up = conn[c].up /\ k.down = << >>
<1>1. /\ NetTypes /\ ClientInv(c) /\ cl[c].pc = "putWait" /\ conn[c].down # << >>
      /\ UNCHANGED <<vars, server, serving>>
  BY DEF NetInv, TakePutReply, Take
<1>2. Answered(c)
  BY <1>1 DEF ClientInv, StepAt, Idle, Asking, Putting, Lost
<1>3. Expected(c) = 50 /\ cl[c].tot = 0
  BY <1>1, SizeFacts DEF ClientInv, PhaseAt, Expected
<1>4. Piece(c).len = 50 /\ Tail(conn[c].down) = << >>
  <2>1. PICK n \in Nat, what \in Seq(BOOLEAN) :
          /\ cl[c].tot = n * Mss /\ Piece(c).len \in Nat
          /\ cl[c].tot + Piece(c).len = IF (n + 1) * Mss <= Expected(c) THEN (n + 1) * Mss
                                        ELSE Expected(c)
          /\ (n + 1) * Mss >= Expected(c) => Tail(conn[c].down) = << >>
    BY <1>2, AnsweredFacts
  <2>2. (n + 1) * Mss > 50
    BY <2>1, MssFacts
  <2>3. QED
    BY <1>3, <2>1, <2>2, MssFacts
<1>5. conn' = [conn EXCEPT ![c] = [conn[c] EXCEPT !.down = << >>]]
  <2>1. Piece(c).len <= ReplySize
    BY <1>4, SizeFacts
  <2>2. Take(c, ReplySize)
    BY DEF TakePutReply
  <2>3. QED
    BY <1>4, <2>1, <2>2, TakesPiece
<1>6. PICK m \in {cl[c].ins, cl[c].ins + 1} :
        cl' = [cl EXCEPT ![c] = [Placed(c, AfterPut(cl[c].n + 1)) EXCEPT !.ins = m]]
  <2>1. Placed(c, AfterPut(cl[c].n + 1)).ins = cl[c].ins
    <3>1. cl[c].n \in Nat
      BY <1>1, ClientTypes
    <3>2. /\ AfterPut(cl[c].n + 1)[1] \in Places /\ AfterPut(cl[c].n + 1)[2] \in Nat
      BY <3>1 DEF AfterPut, Places
    <3>3. QED
      BY <1>1, <3>2, PlacedFacts
  <2>2. CASE Piece(c).what = <<TRUE>>
    BY <2>1, <2>2 DEF TakePutReply
  <2>3. CASE Piece(c).what # <<TRUE>>
    BY <2>1, <2>3 DEF TakePutReply
  <2>4. QED
    BY <2>2, <2>3
<1>7. PICK r \in ClientRec : /\ Finishes(c, r)
                             /\ r = [Placed(c, AfterPut(cl[c].n + 1)) EXCEPT !.ins = m]
  BY <1>1, PutDone
<1> DEFINE k == [conn[c] EXCEPT !.down = << >>]
<1>8. /\ k \in Connection /\ k.thread = conn[c].thread
      /\ k.state = conn[c].state /\ k.fd = conn[c].fd /\ k.up = conn[c].up /\ k.down = << >>
  <2>1. << >> \in Seq(PieceRec)
    BY EmptySeq
  <2>2. conn[c] \in Connection
    BY <1>1, ClientTypes
  <2>3. QED
    BY <2>1, <2>2 DEF Connection
<1>9. conn' = [conn EXCEPT ![c] = k]
  BY <1>5
<1> HIDE DEF k
<1>10. QED
  BY <1>1, <1>2, <1>6, <1>7, <1>8, <1>9

LEMMA TakePutReplyStep ==
  ASSUME NetInv, NEW c \in Client, TakePutReply(c)
  PROVE  NetInv'
<1>1. UNCHANGED <<vars, server, serving>> /\ Answered(c)
  BY TakePutReplyFacts
<1>2. PICK r \in ClientRec : Finishes(c, r) /\ cl' = [cl EXCEPT ![c] = r]
  BY TakePutReplyFacts
<1>3. PICK k \in Connection :
        /\ conn' = [conn EXCEPT ![c] = k]
        /\ k.thread = conn[c].thread /\ k.state = conn[c].state
        /\ k.fd = conn[c].fd /\ k.up = conn[c].up /\ k.down = << >>
  BY TakePutReplyFacts
<1>4. QED
  BY <1>1, <1>2, <1>3, FinishStep DEF Answered

(* A read of values takes the whole piece that comes next.                 *)
LEMMA TakeValuesFacts ==
  ASSUME NetInv, NEW c \in Client, TakeValues(c)
  PROVE  /\ Answered(c) /\ cl[c].pc \in {"getWait", "scanWait"}
         /\ UNCHANGED <<vars, server, serving>>
         /\ conn' = [conn EXCEPT ![c] = [conn[c] EXCEPT !.down = Tail(conn[c].down)]]
         /\ cl' = [cl EXCEPT ![c] =
              IF cl[c].tot + Piece(c).len < Expected(c)
              THEN [cl[c] EXCEPT !.tot = cl[c].tot + Piece(c).len]
              ELSE IF cl[c].pc = "getWait"
              THEN [Placed(c, AfterGet(cl[c].n + Batch(c))) EXCEPT
                      !.missed = @ \cup {KeyOf[c][cl[c].n + i] :
                                   i \in {j \in 1 .. Batch(c) : ~Piece(c).what[j]}}]
              ELSE [Placed(c, AfterScan(cl[c].n + 1)) EXCEPT !.scans = @ + 1]]
<1>1. /\ NetTypes /\ ClientInv(c) /\ cl[c].pc \in {"getWait", "scanWait"}
      /\ conn[c].down # << >> /\ UNCHANGED <<vars, server, serving>>
  BY DEF NetInv, TakeValues, Take
<1>2. Answered(c) /\ Waiting(c)
  BY <1>1 DEF ClientInv, StepAt, Idle, Asking, Putting, Lost, Answered
<1> DEFINE max == (IF cl[c].pc = "getWait" THEN Batch(c) ELSE ScanRange) * ValueSize
                    - cl[c].tot
<1>3. /\ Piece(c).len \in Nat /\ cl[c].tot \in Int /\ Expected(c) \in Nat
      /\ cl[c].tot + Piece(c).len <= Expected(c)
  <2>1. PICK n \in Nat :
          /\ Piece(c).len \in Nat
          /\ cl[c].tot + Piece(c).len = IF (n + 1) * Mss <= Expected(c) THEN (n + 1) * Mss
                                        ELSE Expected(c)
    BY <1>2, AnsweredFacts
  <2>2. Expected(c) \in Nat /\ cl[c].tot \in Int
    BY <1>1, <1>2, ExpectedFacts, ClientTypes DEF ClientInv
  <2>3. QED
    BY <2>1, <2>2, MssFacts
<1>4. max \in Int /\ Expected(c) - cl[c].tot <= max
  <2>1. Batch(c) = NumBatch \/ cl[c].pc # "getWait"
    BY <1>1, GetFacts DEF ClientInv
  <2>2. Expected(c) = IF cl[c].pc = "getWait" THEN NumBatch * ValueSize
                      ELSE (ScanRange - 1) * ValueSize
    BY <1>1, <1>2, ExpectedFacts DEF ClientInv
  <2>3. QED
    BY <1>1, <1>3, <2>1, <2>2, SizeFacts
<1>5. Piece(c).len <= max
  BY <1>3, <1>4
<1>6. Take(c, max)
  BY DEF TakeValues
<1>7. Size(c, max) = Piece(c).len
  BY <1>3, <1>4, <1>5 DEF Size
<1>8. conn' = [conn EXCEPT ![c] = [conn[c] EXCEPT !.down = Tail(conn[c].down)]]
  BY <1>5, <1>6, TakesPiece
<1>9. cl' = [cl EXCEPT ![c] =
              IF cl[c].tot + Piece(c).len < Expected(c)
              THEN [cl[c] EXCEPT !.tot = cl[c].tot + Piece(c).len]
              ELSE IF cl[c].pc = "getWait"
              THEN [Placed(c, AfterGet(cl[c].n + Batch(c))) EXCEPT
                      !.missed = @ \cup {KeyOf[c][cl[c].n + i] :
                                   i \in {j \in 1 .. Batch(c) : ~Piece(c).what[j]}}]
              ELSE [Placed(c, AfterScan(cl[c].n + 1)) EXCEPT !.scans = @ + 1]]
  <2>1. cl' = [cl EXCEPT ![c] =
              IF cl[c].tot + Size(c, max) < Expected(c)
              THEN [cl[c] EXCEPT !.tot = cl[c].tot + Size(c, max)]
              ELSE IF cl[c].pc = "getWait"
              THEN [Placed(c, AfterGet(cl[c].n + Batch(c))) EXCEPT
                      !.missed = @ \cup {KeyOf[c][cl[c].n + i] :
                                   i \in {j \in 1 .. Batch(c) : ~Piece(c).what[j]}}]
              ELSE [Placed(c, AfterScan(cl[c].n + 1)) EXCEPT !.scans = @ + 1]]
    BY DEF TakeValues
  <2>2. QED
    BY <1>7, <2>1
<1>10. QED
  BY <1>1, <1>2, <1>8, <1>9

(* The keys a get has missed.                                              *)
NowMissed(c) ==
  cl[c].missed \cup {KeyOf[c][cl[c].n + i] : i \in {j \in 1 .. Batch(c) : ~Piece(c).what[j]}}

LEMMA NowMissedType ==
  ASSUME NetTypes, NEW c \in Client, PhaseAt(c), cl[c].pc = "getWait"
  PROVE  NowMissed(c) \in SUBSET Key
<1>1. Batch(c) = NumBatch /\ cl[c].n + NumBatch <= NumGet /\ cl[c].n \in Nat
  BY GetFacts, ClientTypes
<1>2. \A i \in 1 .. Batch(c) : cl[c].n + i \in 1 .. NumPut
  BY <1>1, SizeFacts
<1>3. \A i \in 1 .. Batch(c) : KeyOf[c][cl[c].n + i] \in Key
  BY <1>2, KeyTypes
<1>4. QED
  BY <1>3, ClientTypes DEF NowMissed

LEMMA TakeValuesStep ==
  ASSUME NetInv, NEW c \in Client, TakeValues(c)
  PROVE  NetInv'
<1>1. /\ Answered(c) /\ cl[c].pc \in {"getWait", "scanWait"}
      /\ UNCHANGED <<vars, server, serving>> /\ NetTypes /\ ClientInv(c)
  BY TakeValuesFacts DEF NetInv
<1>2. PICK n \in Nat, what \in Seq(BOOLEAN) :
           /\ cl[c].tot = n * Mss
           /\ Piece(c).len \in Nat
           /\ cl[c].tot + Piece(c).len = IF (n + 1) * Mss <= Expected(c) THEN (n + 1) * Mss
                                         ELSE Expected(c)
           /\ Tail(conn[c].down) = Rest(Expected(c), what, n + 1)
           /\ (n + 1) * Mss < Expected(c) =>
                /\ n + 1 < PieceCount(Expected(c))
                /\ Tail(conn[c].down) # << >> /\ Tail(conn[c].down)[1].what = what
           /\ (n + 1) * Mss >= Expected(c) => Tail(conn[c].down) = << >>
  BY <1>1, AnsweredFacts
<1> DEFINE k == [conn[c] EXCEPT !.down = Tail(conn[c].down)]
<1>3. /\ k \in Connection /\ k.thread = conn[c].thread /\ k.state = conn[c].state
      /\ k.fd = conn[c].fd /\ k.up = conn[c].up /\ k.down = Tail(conn[c].down)
  <2>1. Tail(conn[c].down) \in Seq(PieceRec) /\ conn[c] \in Connection
    BY <1>1, ClientTypes, HeadTailProperties DEF Answered
  <2>2. QED
    BY <2>1 DEF Connection
<1>4. conn' = [conn EXCEPT ![c] = k]
  BY TakeValuesFacts
<1> HIDE DEF k
<1>5. Expected(c) \in Nat /\ cl[c].tot \in Int /\ (n + 1) * Mss \in Nat
  BY <1>1, ExpectedFacts, ClientTypes, MssFacts DEF ClientInv, Answered
<1>6. CASE cl[c].tot + Piece(c).len < Expected(c)
  <2> DEFINE r == [cl[c] EXCEPT !.tot = cl[c].tot + Piece(c).len]
  <2>1. /\ r \in ClientRec /\ r.pc = cl[c].pc /\ r.n = cl[c].n /\ r.ins = cl[c].ins
        /\ r.tot = cl[c].tot + Piece(c).len /\ r.scans = cl[c].scans
    <3>1. cl[c] \in ClientRec /\ cl[c].tot + Piece(c).len \in Int
      BY <1>1, <1>2, <1>5, ClientTypes
    <3>2. QED
      BY <3>1, TotFacts
  <2>2. cl' = [cl EXCEPT ![c] = r]
    BY <1>6, TakeValuesFacts
  <2> HIDE DEF r
  <2>3. /\ cl'[c] = r /\ conn'[c] = k /\ NetTypes'
        /\ \A d \in Client \ {c} : cl'[d] = cl[d] /\ conn'[d] = conn[d]
    BY <1>1, <1>3, <1>4, <2>1, <2>2, NewClient, NewConn DEF NetTypes
  <2>4. Waiting(c)' /\ Batch(c)' = Batch(c) /\ Expected(c)' = Expected(c)
    BY <1>1, <2>1, <2>3 DEF Waiting, Batch, Expected
  <2>5. (n + 1) * Mss < Expected(c) /\ r.tot = (n + 1) * Mss
    BY <1>2, <1>5, <1>6, <2>1
  <2>6. PhaseAt(c)'
    BY <1>1, <1>5, <2>1, <2>3, <2>4, <2>5 DEF ClientInv, PhaseAt
  <2>7. LinkAt(c)' /\ UpAt(c)'
    BY <1>1, <1>3, <2>1, <2>3 DEF ClientInv, LinkAt, UpAt
  <2>8. RestComes(c)'
    <3>1. n + 1 \in 0 .. (n + 1) * Mss
      BY MssFacts
    <3>2. conn'[c].down = SubSeq(Pieces(Expected(c)', conn'[c].down[1].what), (n + 1) + 1,
                                 Len(Pieces(Expected(c)', conn'[c].down[1].what)))
      BY <1>2, <1>3, <2>3, <2>4, <2>5 DEF Rest
    <3>3. QED
      BY <2>1, <2>3, <2>5, <3>1, <3>2 DEF RestComes
  <2>9. StepAt(c)'
    BY <1>1, <1>2, <1>3, <2>3, <2>4, <2>5, <2>8 DEF StepAt, Answered, Served
  <2>10. QED
    BY <1>1, <2>3, <2>6, <2>7, <2>9, ClientActs DEF ClientInv, Answered
<1>7. CASE ~(cl[c].tot + Piece(c).len < Expected(c))
  <2>1. Tail(conn[c].down) = << >>
    BY <1>2, <1>5, <1>7
  <2>2. CASE cl[c].pc = "getWait"
    <3> DEFINE r == [Placed(c, AfterGet(cl[c].n + Batch(c))) EXCEPT !.missed = NowMissed(c)]
    <3>1. Placed(c, AfterGet(cl[c].n + Batch(c))).missed = cl[c].missed
      <4>1. /\ AfterGet(cl[c].n + Batch(c))[1] \in Places
            /\ AfterGet(cl[c].n + Batch(c))[2] \in Nat
        BY <1>1, <2>2, GetFacts, ClientTypes, SizeFacts DEF AfterGet, Places, ClientInv
      <4>2. QED
        BY <1>1, <4>1, PlacedFacts
    <3>2. cl' = [cl EXCEPT ![c] = r]
      BY <1>7, <2>2, <3>1, TakeValuesFacts DEF NowMissed
    <3>3. r \in ClientRec /\ Finishes(c, r)
      BY <1>1, <2>2, NowMissedType, GetDone DEF ClientInv
    <3> HIDE DEF r
    <3>4. QED
      BY <1>1, <1>3, <1>4, <2>1, <3>2, <3>3, FinishStep DEF Answered
  <2>3. CASE cl[c].pc = "scanWait"
    <3> DEFINE r == [Placed(c, AfterScan(cl[c].n + 1)) EXCEPT !.scans = @ + 1]
    <3>1. cl' = [cl EXCEPT ![c] = r]
      BY <1>7, <2>3, TakeValuesFacts
    <3>2. r \in ClientRec /\ Finishes(c, r)
      BY <1>1, <2>3, ScanDone
    <3> HIDE DEF r
    <3>3. QED
      BY <1>1, <1>3, <1>4, <2>1, <3>1, <3>2, FinishStep DEF Answered
  <2>4. QED
    BY <1>1, <2>2, <2>3
<1>8. QED
  BY <1>6, <1>7

(* The end of the stream, or an error, is seen only after the server has   *)
(* stopped.                                                                *)
LEMMA ReadsEnd ==
  ASSUME NetInv, NEW c \in Client, Waiting(c),
         \/ conn[c].state \in {"fin", "dead"} /\ conn[c].down = << >>
         \/ conn[c].fd = "closed"
         \/ conn[c].state = "rst" /\ conn[c].down = << >>
  PROVE  /\ server = "down" /\ conn[c].up = << >> /\ conn[c].down = << >>
         /\ conn[c].state \in {"fin", "rst", "dead"}
<1>1. NetTypes /\ ClientInv(c)
  BY DEF NetInv
<1>2. server = "down"
  BY <1>1 DEF ClientInv, LinkAt, NetTypes
<1>3. conn[c].down = << >>
  BY <1>1 DEF ClientInv, StepAt, Idle, Asking, Putting, Answered, Lost, Waiting
<1>4. conn[c].state \in {"none", "open", "fin", "rst", "dead"}
  BY <1>1, ClientTypes
<1>5. QED
  BY <1>1, <1>2, <1>3, <1>4 DEF ClientInv, LinkAt, UpAt, Waiting

(* The put that is given up is not counted.                                *)
LEMMA GivesUp ==
  ASSUME NetTypes, NEW c \in Client, cl[c].pc = "putWait"
  PROVE  /\ Placed(c, AfterPut(cl[c].n + 1)) \in ClientRec
         /\ Finishes(c, Placed(c, AfterPut(cl[c].n + 1)))
<1> DEFINE place == AfterPut(cl[c].n + 1)
           q == Placed(c, place)
<1>1. cl[c].n \in Nat
  BY ClientTypes
<1>2. /\ place[1] = IF cl[c].n + 1 < NumPut THEN "put" ELSE "get"
      /\ place[2] = IF cl[c].n + 1 < NumPut THEN cl[c].n + 1 ELSE 0
      /\ place[1] \in Places /\ place[2] \in Nat
  BY <1>1 DEF AfterPut, Places
<1> HIDE DEF place
<1>3. /\ q \in ClientRec /\ q.pc = place[1] /\ q.n = place[2] /\ q.tot = 0
      /\ q.ins = cl[c].ins /\ q.missed = cl[c].missed /\ q.scans = cl[c].scans
  BY <1>2, PlacedFacts
<1> HIDE DEF q
<1>4. Finishes(c, q)
  BY <1>2, <1>3 DEF Finishes
<1>5. QED
  BY <1>3, <1>4 DEF q, place

LEMMA EndOfStreamStep ==
  ASSUME NetInv, NEW c \in Client, EndOfStream(c)
  PROVE  NetInv'
<1>1. /\ Waiting(c) /\ NetTypes /\ UNCHANGED <<vars, server, serving>>
      /\ server = "down" /\ conn[c].up = << >> /\ conn[c].down = << >>
      /\ conn[c].state \in {"fin", "rst", "dead"}
  BY ReadsEnd DEF EndOfStream, NetInv
<1> DEFINE k == [conn[c] EXCEPT !.fd = "closed"]
<1>2. /\ k \in Connection /\ k.thread = conn[c].thread /\ k.state = conn[c].state
      /\ k.up = << >> /\ k.down = << >>
  <2>1. conn[c] \in Connection
    BY <1>1, ClientTypes
  <2>2. QED
    BY <1>1, <2>1 DEF Connection
<1>3. conn' = [conn EXCEPT ![c] = k]
  BY DEF EndOfStream
<1> HIDE DEF k
<1>4. CASE cl[c].pc = "putWait"
  <2> DEFINE r == Placed(c, AfterPut(cl[c].n + 1))
  <2>1. cl' = [cl EXCEPT ![c] = r] /\ r \in ClientRec /\ Finishes(c, r)
    BY <1>1, <1>4, GivesUp DEF EndOfStream
  <2> HIDE DEF r
  <2>2. QED
    BY <1>1, <1>2, <1>3, <2>1, FinishStep
<1>5. CASE cl[c].pc # "putWait"
  <2>1. PICK r \in ClientRec : r = cl[c]
    BY <1>1, ClientTypes
  <2>2. cl' = [cl EXCEPT ![c] = r]
    BY <1>1, <1>5, <2>1 DEF EndOfStream, NetTypes
  <2>3. cl[c].pc \in {"getWait", "scanWait"} /\ r.tot >= -1 /\ r.tot <= cl[c].tot
    BY <1>1, <1>5, <2>1, ClientTypes DEF Waiting, NetInv, ClientInv, PhaseAt
  <2>4. QED
    BY <1>1, <1>2, <1>3, <2>1, <2>2, <2>3, WaitsStep
<1>6. QED
  BY <1>4, <1>5

LEMMA ReadErrorStep ==
  ASSUME NetInv, NEW c \in Client, ReadError(c)
  PROVE  NetInv'
<1>1. /\ Waiting(c) /\ NetTypes /\ UNCHANGED <<vars, server, serving>>
      /\ server = "down" /\ conn[c].up = << >> /\ conn[c].down = << >>
      /\ conn[c].state \in {"fin", "rst", "dead"}
  BY ReadsEnd DEF ReadError, NetInv
<1>2. PICK k \in Connection :
        /\ conn' = [conn EXCEPT ![c] = k]
        /\ k.thread = conn[c].thread /\ k.up = << >> /\ k.down = << >>
        /\ k.state \in {"fin", "rst", "dead"}
  <2>1. conn[c] \in Connection
    BY <1>1, ClientTypes
  <2>2. CASE conn[c].fd = "open"
    <3> DEFINE k == [conn[c] EXCEPT !.state = "dead"]
    <3>1. /\ k \in Connection /\ k.thread = conn[c].thread /\ k.state = "dead"
          /\ k.up = << >> /\ k.down = << >>
      BY <1>1, <2>1 DEF Connection
    <3>2. conn' = [conn EXCEPT ![c] = k]
      BY <2>2 DEF ReadError
    <3> HIDE DEF k
    <3>3. QED
      BY <3>1, <3>2
  <2>3. CASE conn[c].fd # "open"
    <3>1. conn' = [conn EXCEPT ![c] = conn[c]]
      BY <1>1, <2>3 DEF ReadError, NetTypes
    <3>2. QED
      BY <1>1, <2>1, <3>1
  <2>4. QED
    BY <2>2, <2>3
<1>3. PICK sum \in Int : sum = IF cl[c].tot < 0 THEN -1 ELSE cl[c].tot - 1
  BY <1>1, ClientTypes
<1>4. sum >= -1 /\ sum <= cl[c].tot
  BY <1>1, <1>3, ClientTypes DEF NetInv, ClientInv, PhaseAt
<1>5. CASE cl[c].pc = "putWait"
  <2> DEFINE r == Placed(c, AfterPut(cl[c].n + 1))
  <2>1. cl' = [cl EXCEPT ![c] = r] /\ r \in ClientRec /\ Finishes(c, r)
    BY <1>1, <1>5, GivesUp DEF ReadError
  <2> HIDE DEF r
  <2>2. QED
    BY <1>1, <1>2, <2>1, FinishStep
<1>6. CASE cl[c].pc = "scanWait" /\ sum < 0
  <2> DEFINE r == [Placed(c, AfterScan(cl[c].n + 1)) EXCEPT !.scans = @ + 1]
  <2>1. r \in ClientRec /\ Finishes(c, r)
    BY <1>1, <1>6, ScanDone
  <2>2. cl' = [cl EXCEPT ![c] = r]
    BY <1>3, <1>6 DEF ReadError
  <2> HIDE DEF r
  <2>3. QED
    BY <1>1, <1>2, <2>1, <2>2, FinishStep
<1>7. CASE cl[c].pc # "putWait" /\ ~(cl[c].pc = "scanWait" /\ sum < 0)
  <2> DEFINE r == [cl[c] EXCEPT !.tot = sum]
  <2>1. /\ r \in ClientRec /\ r.pc = cl[c].pc /\ r.n = cl[c].n /\ r.ins = cl[c].ins
        /\ r.tot = sum /\ r.missed = cl[c].missed /\ r.scans = cl[c].scans
    BY <1>1, ClientTypes, TotFacts
  <2>2. cl' = [cl EXCEPT ![c] = r]
    BY <1>3, <1>7 DEF ReadError
  <2> HIDE DEF r
  <2>3. cl[c].pc \in {"getWait", "scanWait"}
    BY <1>1, <1>7 DEF Waiting
  <2>4. QED
    BY <1>1, <1>2, <1>4, <2>1, <2>2, <2>3, WaitsStep
<1>8. QED
  BY <1>5, <1>6, <1>7

-----------------------------------------------------------------------------
(* The steps of the server.                                                *)

LEMMA OneThread ==
  ASSUME NetInv, server = "up", NEW c \in Client, NEW s \in Server, serving[s] = c
  PROVE  /\ Putting(c) /\ conn[c].thread = s
         /\ \A t \in Server : serving[t] = c => t = s
<1>1. /\ cl[c].pc = "putWait" /\ conn[c].thread = s
      /\ \A t \in Server : serving[t] = c => conn[c].thread = t
  BY DEF NetInv, ServedAt
<1>2. Served(c) /\ StepAt(c)
  BY DEF Served, NetInv, ClientInv
<1>3. QED
  BY <1>1, <1>2 DEF StepAt, Idle, Asking, Answered, Lost

(* A client whose answer is put on the way.                                *)
LEMMA AnswerComes ==
  ASSUME NetInv, server = "up", server' = server, cl' = cl,
         NEW c \in Client, Waiting(c), cl[c].tot = 0,
         NEW k \in Connection, conn' = [conn EXCEPT ![c] = k],
         NEW what \in Seq(BOOLEAN), k.down = Pieces(Expected(c), what),
         k.up = << >>, k.thread = conn[c].thread, k.state = conn[c].state,
         k.fd = conn[c].fd, ~Served(c)'
  PROVE  ClientInv(c)'
<1>1. NetTypes /\ ClientInv(c) /\ PhaseAt(c)
  BY DEF NetInv, ClientInv
<1>2. conn'[c] = k
  BY <1>1 DEF NetTypes
<1>3. /\ Waiting(c)' /\ Batch(c)' = Batch(c) /\ Expected(c)' = Expected(c)
      /\ Expected(c) \in Nat /\ Expected(c) > 0
  BY <1>1, ExpectedFacts DEF Waiting, Batch, Expected
<1>4. PhaseAt(c)' /\ LinkAt(c)' /\ UpAt(c)'
  BY <1>1, <1>2, <1>3 DEF ClientInv, PhaseAt, LinkAt, UpAt
<1>5. /\ conn'[c].fd = "open" /\ conn'[c].state = "open"
  BY <1>1, <1>2 DEF ClientInv, LinkAt, Waiting
<1>6. /\ conn'[c].down = Rest(Expected(c), what, 0) /\ conn'[c].down # << >>
      /\ conn'[c].down[1].what = what
  <2>1. 0 < PieceCount(Expected(c))
    BY <1>3, CountFacts
  <2>2. Rest(Expected(c), what, 0) = Pieces(Expected(c), what)
    BY <1>3, RestEnds
  <2>3. QED
    BY <1>2, <1>3, <2>1, <2>2, RestFacts
<1>7. RestComes(c)'
  <2>1. 0 \in 0 .. 0 /\ 0 = 0 * Mss
    BY MssFacts
  <2>2. /\ cl'[c].tot = 0
        /\ conn'[c].down = SubSeq(Pieces(Expected(c)', conn'[c].down[1].what), 0 + 1,
                                  Len(Pieces(Expected(c)', conn'[c].down[1].what)))
    BY <1>3, <1>6 DEF Rest
  <2>3. QED
    BY <2>1, <2>2 DEF RestComes
<1>8. StepAt(c)'
  BY <1>2, <1>3, <1>5, <1>6, <1>7 DEF StepAt, Answered
<1>9. QED
  BY <1>4, <1>8 DEF ClientInv

LEMMA ReadPutFacts ==
  ASSUME NetInv, NEW s \in Server, NEW c \in Client, ReadPut(s, c)
  PROVE  /\ server = "up" /\ serving[s] = Nobody /\ conn[c].thread = s
         /\ UNCHANGED <<server, cl>> /\ serving' = [serving EXCEPT ![s] = c]
         /\ Asking(c) /\ cl[c].pc = "putWait" /\ Tail(conn[c].up) = << >>
         /\ KeyOf[c][cl[c].n + 1] \in Key /\ AppendLog(s, KeyOf[c][cl[c].n + 1])
<1>1. /\ NetTypes /\ TypeInv /\ ClientInv(c) /\ server = "up" /\ serving[s] = Nobody
      /\ conn[c].thread = s /\ conn[c].up # << >> /\ Request(c).len = ItemSize
      /\ UNCHANGED <<server, cl>> /\ serving' = [serving EXCEPT ![s] = c]
  BY DEF NetInv, ReadPut, MayRead
<1>2. Asking(c)
  BY <1>1 DEF ClientInv, StepAt, Idle, Putting, Answered, Lost, LinkAt
<1>3. Request(c) = RequestOf(c) /\ Tail(conn[c].up) = << >>
  BY <1>2 DEF Asking, Request
<1>4. cl[c].pc = "putWait" /\ Request(c).keys[1] = KeyOf[c][cl[c].n + 1]
  <2>1. RequestOf(c).len = ItemSize <=> cl[c].pc = "putWait"
    BY <1>1, <1>2, ExpectedFacts DEF Asking, ClientInv
  <2>2. cl[c].pc = "putWait"
    BY <1>1, <1>3, <2>1
  <2>3. RequestOf(c) = [len |-> ItemSize, keys |-> << KeyOf[c][cl[c].n + 1] >>]
    BY <2>2 DEF RequestOf
  <2>4. QED
    BY <1>3, <2>2, <2>3
<1>5. KeyOf[c][cl[c].n + 1] \in Key
  BY <1>1, <1>4, ClientTypes, KeyTypes, SizeFacts DEF ClientInv, PhaseAt
<1>6. AppendLog(s, KeyOf[c][cl[c].n + 1])
  BY <1>4 DEF ReadPut
<1>7. QED
  BY <1>1, <1>2, <1>3, <1>4, <1>5, <1>6

LEMMA ReadPutStep ==
  ASSUME NetInv, NEW s \in Server, NEW c \in Client, ReadPut(s, c)
  PROVE  NetInv'
<1>1. /\ NetTypes /\ TypeInv /\ ClientInv(c) /\ server = "up" /\ serving[s] = Nobody
      /\ conn[c].thread = s
      /\ UNCHANGED <<server, cl>> /\ serving' = [serving EXCEPT ![s] = c]
  BY ReadPutFacts DEF NetInv
<1>2. Asking(c) /\ cl[c].pc = "putWait" /\ Tail(conn[c].up) = << >>
  BY ReadPutFacts
<1>3. PICK key \in Key : key = KeyOf[c][cl[c].n + 1] /\ AppendLog(s, key)
  BY ReadPutFacts
<1>4. TypeInv'
  BY <1>1, <1>3, TypeStep DEF Next
<1> DEFINE k == [conn[c] EXCEPT !.up = << >>]
<1>5. /\ k \in Connection /\ k.thread = conn[c].thread /\ k.state = conn[c].state
      /\ k.fd = conn[c].fd /\ k.up = << >> /\ k.down = << >>
  <2>1. conn[c] \in Connection /\ << >> \in Seq(Req) /\ conn[c].down = << >>
    BY <1>1, <1>2, ClientTypes, EmptySeq DEF Asking
  <2>2. QED
    BY <2>1 DEF Connection
<1>6. conn' = [conn EXCEPT ![c] = k]
  BY <1>2 DEF ReadPut
<1> HIDE DEF k
<1>7. /\ conn'[c] = k /\ NetTypes'
      /\ \A d \in Client \ {c} : conn'[d] = conn[d]
      /\ \A t \in Server : serving'[t] = IF t = s THEN c ELSE serving[t]
  BY <1>1, <1>5, <1>6, NewConn DEF NetTypes
<1>8. ASSUME NEW d \in Client PROVE ClientInv(d)'
  <2>1. CASE d # c
    <3>1. Served(d)' <=> Served(d)
      BY <1>1, <1>7, <2>1, NetAssumption DEF Served
    <3>2. QED
      BY <1>1, <1>7, <2>1, <3>1, ClientFrame DEF NetInv
  <2>2. CASE d = c
    <3>1. Served(c)'
      BY <1>7 DEF Served
    <3>2. Waiting(c)' /\ Batch(c)' = Batch(c) /\ Expected(c)' = Expected(c)
      BY <1>1, <1>2 DEF Waiting, Batch, Expected, Asking
    <3>3. PhaseAt(c)' /\ LinkAt(c)' /\ UpAt(c)'
      BY <1>1, <1>2, <1>5, <1>7, <3>2 DEF ClientInv, PhaseAt, LinkAt, UpAt, Asking
    <3>4. StepAt(c)'
      BY <1>1, <1>2, <1>5, <1>7, <3>1 DEF StepAt, Putting, Asking
    <3>5. QED
      BY <2>2, <3>3, <3>4 DEF ClientInv
  <2>3. QED
    BY <2>1, <2>2
<1>9. ASSUME NEW t \in Server, NEW d \in Client, server' = "up", serving'[t] = d
       PROVE  /\ cl'[d].pc = "putWait" /\ conn'[d].thread = t
              /\ log'[t] # << >> /\ log'[t][Len(log'[t])] = KeyOf[d][cl'[d].n + 1]
  <2>1. CASE t = s
    <3>1. d = c
      BY <1>7, <1>9, <2>1
    <3>2. log[s] \in Seq(Key) /\ log'[s] = Append(log[s], key)
      BY <1>1, <1>3 DEF AppendLog, TypeInv, TypeOK
    <3>3. log'[s] # << >> /\ log'[s][Len(log'[s])] = key
      BY <3>2
    <3>4. QED
      BY <1>1, <1>2, <1>3, <1>5, <1>7, <2>1, <3>1, <3>3
  <2>2. CASE t # s
    <3>1. serving[t] = d /\ d # c
      <4>1. serving[t] = d
        BY <1>7, <1>9, <2>2
      <4>2. d # c
        BY <1>1, <1>2, <4>1 DEF Asking, Served
      <4>3. QED
        BY <4>1, <4>2
    <3>2. log'[t] = log[t]
      BY <1>1, <1>3, <2>2 DEF AppendLog, TypeInv, TypeOK
    <3>3. QED
      BY <1>1, <1>7, <3>1, <3>2 DEF NetInv, ServedAt
  <2>3. QED
    BY <2>1, <2>2
<1>10. \A t \in Server : ServedAt(t)'
  BY <1>9 DEF ServedAt
<1>11. QED
  BY <1>4, <1>7, <1>8, <1>10 DEF NetInv

LEMMA AnswerPutStep ==
  ASSUME NetInv, NEW s \in Server, AnswerPut(s)
  PROVE  NetInv'
<1>1. /\ NetTypes /\ TypeInv /\ server = "up" /\ serving[s] # Nobody /\ pc[s] = "idle"
      /\ UNCHANGED <<vars, server, cl>> /\ serving' = [serving EXCEPT ![s] = Nobody]
  BY DEF NetInv, AnswerPut
<1>2. PICK c \in Client : c = serving[s]
  BY <1>1 DEF NetTypes
<1>3. /\ Putting(c) /\ conn[c].thread = s
      /\ \A t \in Server : serving[t] = c => t = s
      /\ log[s] # << >>
  BY <1>1, <1>2, OneThread DEF NetInv, ServedAt
<1>4. PICK what \in Seq(BOOLEAN) : what = << result[s][Len(result[s])] >>
  <2>1. result[s] \in Seq(BOOLEAN) /\ Len(result[s]) = Len(log[s]) /\ log[s] \in Seq(Key)
    BY <1>1 DEF TypeInv, TypeOK, Lengths
  <2>2. Len(result[s]) > 0 /\ Len(result[s]) \in Nat
    BY <1>3, <2>1
  <2>3. result[s][Len(result[s])] \in BOOLEAN
    BY <2>1, <2>2
  <2>4. << result[s][Len(result[s])] >> \in Seq(BOOLEAN)
    BY <2>3, OneSeq, Zenon
  <2>5. QED
    BY <2>4
<1>5. Expected(c) = ReplySize /\ Waiting(c) /\ PhaseAt(c) /\ cl[c].tot = 0
  BY <1>3 DEF Expected, Putting, Waiting, NetInv, ClientInv
<1>6. << >> \o Pieces(ReplySize, what) = Pieces(ReplySize, what)
      /\ Pieces(ReplySize, what) \in Seq(PieceRec)
  BY PieceFacts, ConcatEmptySeq, SizeFacts
<1> DEFINE k == [conn[c] EXCEPT !.down = Pieces(ReplySize, what)]
<1>7. /\ k \in Connection /\ k.thread = conn[c].thread /\ k.state = conn[c].state
      /\ k.fd = conn[c].fd /\ k.up = << >> /\ k.down = Pieces(ReplySize, what)
  <2>1. conn[c] \in Connection /\ conn[c].up = << >>
    BY <1>1, <1>3, ClientTypes DEF Putting
  <2>2. QED
    BY <1>6, <2>1 DEF Connection
<1>8. conn' = [conn EXCEPT ![c] = k]
  BY <1>2, <1>3, <1>4, <1>6 DEF AnswerPut, Putting
<1> HIDE DEF k
<1>9. /\ conn'[c] = k /\ NetTypes'
      /\ \A d \in Client \ {c} : conn'[d] = conn[d]
      /\ \A t \in Server : serving'[t] = IF t = s THEN Nobody ELSE serving[t]
  BY <1>1, <1>7, <1>8, NewConn DEF NetTypes
<1>10. ~Served(c)'
  BY <1>3, <1>9, NetAssumption DEF Served
<1>11. ASSUME NEW d \in Client PROVE ClientInv(d)'
  <2>1. CASE d # c
    <3>1. Served(d)' <=> Served(d)
      BY <1>2, <1>9, <2>1, NetAssumption DEF Served
    <3>2. QED
      BY <1>1, <1>9, <2>1, <3>1, ClientFrame DEF NetInv
  <2>2. CASE d = c
    BY <1>1, <1>5, <1>7, <1>8, <1>10, <2>2, AnswerComes
  <2>3. QED
    BY <2>1, <2>2
<1>12. ASSUME NEW t \in Server, NEW d \in Client, server' = "up", serving'[t] = d
       PROVE  /\ cl'[d].pc = "putWait" /\ conn'[d].thread = t
              /\ log'[t] # << >> /\ log'[t][Len(log'[t])] = KeyOf[d][cl'[d].n + 1]
  <2>1. t # s /\ serving[t] = d
    BY <1>9, <1>12, NetAssumption
  <2>2. d # c
    BY <1>3, <2>1
  <2>3. log'[t] = log[t]
    BY <1>1 DEF vars
  <2>4. QED
    BY <1>1, <1>9, <2>1, <2>2, <2>3 DEF NetInv, ServedAt
<1>13. \A t \in Server : ServedAt(t)'
  BY <1>12 DEF ServedAt
<1>14. TypeInv'
  BY <1>1 DEF vars, TypeInv, TypeOK, Lengths
<1>15. QED
  BY <1>9, <1>11, <1>13, <1>14 DEF NetInv

LEMMA FoundType ==
  ASSUME NEW s, NEW keys \in Seq(Key)
  PROVE  Found(s, keys) \in Seq(BOOLEAN) /\ Len(Found(s, keys)) = Len(keys)
<1>1. Len(keys) \in Nat
  OBVIOUS
<1>2. \A i \in 1 .. Len(keys) : (Search(s, keys[i]) # None) \in BOOLEAN
  OBVIOUS
<1>3. Found(s, keys) \in [1 .. Len(keys) -> BOOLEAN]
  BY <1>2, Zenon DEF Found
<1>4. QED
  BY <1>1, <1>3, SeqOfFun, Zenon

(* What the server makes of a request for values.                          *)
LEMMA ReplyFacts ==
  ASSUME NetInv, NEW s \in Server, NEW c \in Client, ReadOther(s, c)
  PROVE  /\ Asking(c) /\ cl[c].pc \in {"getWait", "scanWait"} /\ server = "up"
         /\ conn[c].thread = s /\ Request(c) = RequestOf(c) /\ Tail(conn[c].up) = << >>
         /\ \E what \in Seq(BOOLEAN) :
              /\ Reply(s, Request(c)) = Pieces(Expected(c), what)
              /\ cl[c].pc = "getWait" => what = Found(s, RequestOf(c).keys)
<1>1. /\ NetTypes /\ ClientInv(c) /\ PhaseAt(c) /\ server = "up" /\ conn[c].thread = s
      /\ conn[c].up # << >> /\ Request(c).len # ItemSize
  BY DEF NetInv, ReadOther, MayRead, ClientInv
<1>2. Asking(c)
  BY <1>1 DEF ClientInv, StepAt, Idle, Putting, Answered, Lost, LinkAt
<1>3. Request(c) = RequestOf(c) /\ Tail(conn[c].up) = << >> /\ Waiting(c)
  BY <1>2 DEF Asking, Request
<1>4. /\ Expected(c) = IF cl[c].pc = "getWait" THEN NumBatch * ValueSize
                          ELSE IF cl[c].pc = "scanWait" THEN (ScanRange - 1) * ValueSize
                          ELSE ReplySize
      /\ RequestOf(c) \in Req
      /\ RequestOf(c).len = ItemSize <=> cl[c].pc = "putWait"
      /\ RequestOf(c).len = NumBatch * KeySize <=> cl[c].pc = "getWait"
      /\ RequestOf(c).len = 2 * KeySize <=> cl[c].pc = "scanWait"
  BY <1>1, <1>3, ExpectedFacts
<1>5. cl[c].pc \in {"getWait", "scanWait"}
  BY <1>1, <1>3, <1>4 DEF Waiting
<1>6. \E what \in Seq(BOOLEAN) :
              /\ Reply(s, Request(c)) = Pieces(Expected(c), what)
              /\ cl[c].pc = "getWait" => what = Found(s, RequestOf(c).keys)
  <2>1. CASE cl[c].pc = "getWait"
    <3>1. RequestOf(c).keys = SubSeq(KeyOf[c], cl[c].n + 1, cl[c].n + NumBatch)
      BY <2>1 DEF RequestOf
    <3>2. RequestOf(c).keys \in Seq(Key) /\ Len(RequestOf(c).keys) = NumBatch
      BY <1>1, <2>1, <3>1, GetFacts
    <3>3. Found(s, RequestOf(c).keys) \in Seq(BOOLEAN)
      BY <3>2, FoundType
    <3>4. Reply(s, Request(c)) = Pieces(NumBatch * ValueSize, Found(s, RequestOf(c).keys))
      BY <1>3, <1>4, <2>1, <3>2 DEF Reply
    <3>5. QED
      BY <1>4, <2>1, <3>3, <3>4
  <2>2. CASE cl[c].pc = "scanWait"
    <3>1. Reply(s, Request(c)) = Pieces((ScanRange - 1) * ValueSize, << >>)
      BY <1>3, <1>4, <2>2 DEF Reply
    <3>2. << >> \in Seq(BOOLEAN)
      BY EmptySeq
    <3>3. QED
      BY <1>4, <2>2, <3>1, <3>2
  <2>3. QED
    BY <1>5, <2>1, <2>2
<1>7. QED
  BY <1>1, <1>2, <1>3, <1>5, <1>6

(* Steps after which every thread serves whom it served.                   *)
LEMMA ServedFrame ==
  ASSUME NetInv, server' = server, serving' = serving, cl' = cl,
         \A c \in Client : conn'[c].thread = conn[c].thread,
         \A s \in Server : log'[s] = log[s], NEW s \in Server
  PROVE  ServedAt(s)'
<1>1. ASSUME NEW d \in Client, server' = "up", serving'[s] = d
      PROVE  /\ cl'[d].pc = "putWait" /\ conn'[d].thread = s
             /\ log'[s] # << >> /\ log'[s][Len(log'[s])] = KeyOf[d][cl'[d].n + 1]
  BY <1>1 DEF NetInv, ServedAt
<1>2. QED
  BY <1>1 DEF ServedAt

LEMMA ReadOtherStep ==
  ASSUME NetInv, NEW s \in Server, NEW c \in Client, ReadOther(s, c)
  PROVE  NetInv'
<1>1. /\ NetTypes /\ TypeInv /\ UNCHANGED <<vars, server, serving, cl>>
  BY DEF NetInv, ReadOther
<1>2. PICK what \in Seq(BOOLEAN) :
        /\ Asking(c) /\ server = "up" /\ Tail(conn[c].up) = << >>
        /\ Reply(s, Request(c)) = Pieces(Expected(c), what)
  BY ReplyFacts
<1>3. /\ Expected(c) \in Nat /\ Expected(c) > 0 /\ Waiting(c) /\ cl[c].tot = 0
  BY <1>1, <1>2, ExpectedFacts DEF NetInv, ClientInv, Asking
<1>4. << >> \o Pieces(Expected(c), what) = Pieces(Expected(c), what)
      /\ Pieces(Expected(c), what) \in Seq(PieceRec)
  BY <1>3, PieceFacts, ConcatEmptySeq
<1> DEFINE k == [conn[c] EXCEPT !.up = << >>, !.down = Pieces(Expected(c), what)]
<1>5. /\ k \in Connection /\ k.thread = conn[c].thread /\ k.state = conn[c].state
      /\ k.fd = conn[c].fd /\ k.up = << >> /\ k.down = Pieces(Expected(c), what)
  <2>1. conn[c] \in Connection /\ << >> \in Seq(Req)
    BY <1>1, ClientTypes, EmptySeq
  <2> DEFINE k1 == [conn[c] EXCEPT !.up = << >>]
  <2>2. /\ k1 \in Connection /\ k1.thread = conn[c].thread /\ k1.state = conn[c].state
        /\ k1.fd = conn[c].fd /\ k1.up = << >>
    BY <2>1 DEF Connection
  <2> HIDE DEF k1
  <2> DEFINE k2 == [k1 EXCEPT !.down = Pieces(Expected(c), what)]
  <2>3. /\ k2 \in Connection /\ k2.thread = conn[c].thread /\ k2.state = conn[c].state
        /\ k2.fd = conn[c].fd /\ k2.up = << >> /\ k2.down = Pieces(Expected(c), what)
    BY <1>4, <2>2 DEF Connection
  <2> HIDE DEF k2
  <2>4. k = k2
    BY DEF k1, k2
  <2>5. QED
    BY <2>3, <2>4
<1>6. conn' = [conn EXCEPT ![c] = k]
  <2>1. conn' = [conn EXCEPT ![c] = [conn[c] EXCEPT !.up = Tail(conn[c].up),
                                       !.down = conn[c].down \o Reply(s, Request(c))]]
    BY DEF ReadOther
  <2>2. conn[c].down \o Reply(s, Request(c)) = Pieces(Expected(c), what)
    BY <1>2, <1>4 DEF Asking
  <2>3. QED
    BY <1>2, <2>1, <2>2
<1> HIDE DEF k
<1>7. /\ conn'[c] = k /\ NetTypes'
      /\ \A d \in Client \ {c} : conn'[d] = conn[d]
  BY <1>1, <1>5, <1>6, NewConn DEF NetTypes
<1>8. \A d \in Client : Served(d)' <=> Served(d)
  BY <1>1 DEF Served
<1>9. ASSUME NEW d \in Client PROVE ClientInv(d)'
  <2>1. CASE d # c
    BY <1>1, <1>7, <1>8, <2>1, ClientFrame DEF NetInv
  <2>2. CASE d = c
    <3>1. ~Served(c)'
      BY <1>2, <1>8 DEF Asking
    <3>2. QED
      BY <1>1, <1>2, <1>3, <1>5, <1>6, <2>2, <3>1, AnswerComes
  <2>3. QED
    BY <2>1, <2>2
<1>10. \A t \in Server : ServedAt(t)'
  BY <1>1, <1>5, <1>7, ServedFrame DEF vars
<1>11. TypeInv'
  BY <1>1 DEF vars, TypeInv, TypeOK, Lengths
<1>12. QED
  BY <1>7, <1>9, <1>10, <1>11 DEF NetInv

LEMMA HangupStep ==
  ASSUME NetInv, NEW s \in Server, NEW c \in Client, Hangup(s, c)
  PROVE  NetInv'
<1>1. /\ NetTypes /\ TypeInv /\ UNCHANGED <<vars, server, serving, cl>>
      /\ server = "up" /\ cl[c].pc = "done" /\ ClientInv(c)
  BY DEF NetInv, Hangup
<1>2. Idle(c)
  BY <1>1 DEF ClientInv, StepAt, Asking, Putting, Answered, Lost, Waiting
<1> DEFINE k == [conn[c] EXCEPT !.state = "none"]
<1>3. /\ k \in Connection /\ k.thread = conn[c].thread /\ k.state = "none"
      /\ k.fd = conn[c].fd /\ k.up = conn[c].up /\ k.down = conn[c].down
  <2>1. conn[c] \in Connection
    BY <1>1, ClientTypes
  <2>2. QED
    BY <2>1 DEF Connection
<1>4. conn' = [conn EXCEPT ![c] = k]
  BY DEF Hangup
<1> HIDE DEF k
<1>5. /\ conn'[c] = k /\ NetTypes'
      /\ \A d \in Client \ {c} : conn'[d] = conn[d]
  BY <1>1, <1>3, <1>4, NewConn DEF NetTypes
<1>6. \A d \in Client : Served(d)' <=> Served(d)
  BY <1>1 DEF Served
<1>7. ASSUME NEW d \in Client PROVE ClientInv(d)'
  <2>1. CASE d # c
    BY <1>1, <1>5, <1>6, <2>1, ClientFrame DEF NetInv
  <2>2. CASE d = c
    <3>1. PhaseAt(c)'
      BY <1>1 DEF ClientInv, PhaseAt, Waiting
    <3>2. LinkAt(c)' /\ UpAt(c)'
      BY <1>1, <1>3, <1>5 DEF ClientInv, LinkAt, UpAt
    <3>3. StepAt(c)'
      BY <1>1, <1>2, <1>3, <1>5, <1>6 DEF StepAt, Idle, Waiting
    <3>4. QED
      BY <2>2, <3>1, <3>2, <3>3 DEF ClientInv
  <2>3. QED
    BY <2>1, <2>2
<1>8. \A t \in Server : ServedAt(t)'
  BY <1>1, <1>3, <1>5, ServedFrame DEF vars
<1>9. TypeInv'
  BY <1>1 DEF vars, TypeInv, TypeOK, Lengths
<1>10. QED
  BY <1>5, <1>7, <1>8, <1>9 DEF NetInv

(* A step of the engine that appends nothing.                              *)
LEMMA EngineOnlyStep ==
  ASSUME NetInv, UNCHANGED netVars, Next, UNCHANGED log
  PROVE  NetInv'
<1>1. NetTypes' /\ TypeInv'
  BY TypeStep DEF NetInv, NetTypes, netVars
<1>2. ASSUME NEW d \in Client PROVE ClientInv(d)'
  <2>1. Served(d)' <=> Served(d)
    BY DEF Served, netVars
  <2>2. QED
    BY <2>1, ClientFrame DEF NetInv, netVars
<1>3. \A t \in Server : ServedAt(t)'
  BY ServedFrame DEF netVars
<1>4. QED
  BY <1>1, <1>2, <1>3 DEF NetInv

LEMMA StopStep ==
  ASSUME NetInv, Stop
  PROVE  NetInv'
<1>1. /\ NetTypes /\ TypeInv /\ UNCHANGED <<vars, serving, cl>>
      /\ server = "up" /\ server' = "down"
  BY DEF NetInv, Stop
<1>2. PICK st \in [Client -> {"fin", "rst"}] :
        /\ \A c \in Client : st[c] = "rst" => conn[c].up # << >>
        /\ conn' = [c \in Client |->
             IF conn[c].state = "open"
             THEN [conn[c] EXCEPT !.state = st[c], !.up = << >>]
             ELSE conn[c]]
  BY DEF Stop
<1>3. ASSUME NEW c \in Client, conn[c].state = "open"
      PROVE  /\ conn'[c] \in Connection /\ conn'[c].thread = conn[c].thread
             /\ conn'[c].state = st[c] /\ conn'[c].fd = conn[c].fd
             /\ conn'[c].up = << >> /\ conn'[c].down = conn[c].down
  <2>1. conn[c] \in Connection /\ << >> \in Seq(Req) /\ st[c] \in {"fin", "rst"}
    BY <1>1, ClientTypes, EmptySeq
  <2> DEFINE k1 == [conn[c] EXCEPT !.state = st[c]]
  <2>2. /\ k1 \in Connection /\ k1.thread = conn[c].thread /\ k1.state = st[c]
        /\ k1.fd = conn[c].fd /\ k1.down = conn[c].down
    BY <2>1 DEF Connection
  <2> HIDE DEF k1
  <2> DEFINE k2 == [k1 EXCEPT !.up = << >>]
  <2>3. /\ k2 \in Connection /\ k2.thread = conn[c].thread /\ k2.state = st[c]
        /\ k2.fd = conn[c].fd /\ k2.up = << >> /\ k2.down = conn[c].down
    BY <2>1, <2>2 DEF Connection
  <2> HIDE DEF k2
  <2>4. conn'[c] = k2
    BY <1>2, <1>3 DEF k1, k2
  <2>5. QED
    BY <2>3, <2>4
<1>4. ASSUME NEW c \in Client, conn[c].state # "open"
      PROVE  conn'[c] = conn[c]
  BY <1>2, <1>4
<1>5. NetTypes'
  <2>1. conn' \in [Client -> Connection]
    <3>1. \A c \in Client : conn'[c] \in Connection
      BY <1>1, <1>3, <1>4, ClientTypes
    <3>2. conn' = [c \in Client |-> conn'[c]]
      BY <1>2
    <3>3. QED
      BY <3>1, <3>2
  <2>2. QED
    BY <1>1, <2>1 DEF NetTypes
<1>6. ASSUME NEW c \in Client PROVE ClientInv(c)'
  <2>0. ClientInv(c) /\ (Served(c)' <=> Served(c))
    BY <1>1 DEF NetInv, Served
  <2>1. /\ (Waiting(c)' <=> Waiting(c)) /\ Batch(c)' = Batch(c) /\ Expected(c)' = Expected(c)
    BY <1>1 DEF Waiting, Batch, Expected
  <2>2. PhaseAt(c)'
    BY <1>1, <2>0, <2>1 DEF ClientInv, PhaseAt
  <2>3. CASE conn[c].state = "open"
    <3>1. LinkAt(c)' /\ UpAt(c)'
      BY <1>1, <1>2, <1>3, <2>0, <2>3 DEF ClientInv, LinkAt, UpAt
    <3>2. StepAt(c)'
      <4>1. CASE Idle(c)
        BY <1>3, <2>0, <2>1, <2>3, <4>1 DEF StepAt, Idle
      <4>2. CASE Asking(c) \/ Putting(c)
        BY <1>1, <1>3, <2>3, <4>2 DEF StepAt, Asking, Putting, Lost
      <4>3. CASE Answered(c)
        <5>1. st[c] = "fin"
          BY <1>2, <4>3 DEF Answered
        <5>2. RestComes(c)'
          BY <1>1, <1>3, <2>1, <2>3, <4>3 DEF Answered, RestComes
        <5>3. QED
          BY <1>3, <2>0, <2>1, <2>3, <4>3, <5>1, <5>2 DEF StepAt, Answered
      <4>4. QED
        BY <1>1, <2>0, <4>1, <4>2, <4>3 DEF ClientInv, StepAt, Lost, LinkAt
    <3>3. QED
      BY <2>2, <3>1, <3>2 DEF ClientInv
  <2>4. CASE conn[c].state # "open"
    <3>1. cl[c].pc \in {"new", "done"} /\ conn[c].state = "none"
      BY <1>1, <2>0, <2>4, ClientTypes DEF ClientInv, LinkAt
    <3>2. Idle(c)
      BY <1>1, <2>0, <3>1 DEF ClientInv, StepAt, Asking, Putting, Answered, Lost, Waiting
    <3>3. LinkAt(c)' /\ UpAt(c)'
      BY <1>1, <1>4, <2>0, <2>4, <3>1, <3>2 DEF ClientInv, LinkAt, UpAt, Idle
    <3>4. StepAt(c)'
      BY <1>4, <2>0, <2>1, <2>4, <3>2 DEF StepAt, Idle
    <3>5. QED
      BY <2>2, <3>3, <3>4 DEF ClientInv
  <2>5. QED
    BY <2>3, <2>4
<1>7. \A t \in Server : ServedAt(t)'
  BY <1>1 DEF ServedAt
<1>8. TypeInv'
  BY <1>1 DEF vars, TypeInv, TypeOK, Lengths
<1>9. QED
  BY <1>5, <1>6, <1>7, <1>8 DEF NetInv

-----------------------------------------------------------------------------
LEMMA NetInit0 == NetInit => NetInv
<1> SUFFICES ASSUME NetInit PROVE NetInv
  OBVIOUS
<1>1. TypeInv
  BY TypeInit DEF NetInit
<1>2. NetTypes
  <2>1. << >> \in Seq(Req) /\ << >> \in Seq(PieceRec)
    BY EmptySeq
  <2>2. /\ server \in {"up", "down"}
        /\ serving \in [Server -> Client \cup {Nobody}]
    BY DEF NetInit
  <2>3. conn \in [Client -> Connection]
    BY <2>1 DEF NetInit, Connection
  <2>4. cl \in [Client -> ClientRec]
    BY DEF NetInit, ClientRec
  <2>5. QED
    BY <2>2, <2>3, <2>4 DEF NetTypes
<1>3. ASSUME NEW c \in Client PROVE ClientInv(c)
  <2>1. /\ cl[c].pc = "new" /\ cl[c].n = 0 /\ cl[c].tot = 0 /\ cl[c].ins = 0 /\ cl[c].scans = 0
        /\ conn[c].state = "none" /\ conn[c].fd = "open"
        /\ conn[c].up = << >> /\ conn[c].down = << >>
        /\ server = "up"
    BY DEF NetInit
  <2>2. ~Served(c)
    BY NetAssumption DEF NetInit, Served
  <2>3. PhaseAt(c)
    BY <2>1, SizeFacts DEF PhaseAt, Waiting
  <2>4. LinkAt(c) /\ UpAt(c)
    BY <2>1 DEF LinkAt, UpAt
  <2>5. StepAt(c)
    BY <2>1, <2>2 DEF StepAt, Idle, Waiting
  <2>6. QED
    BY <2>3, <2>4, <2>5 DEF ClientInv
<1>4. \A s \in Server : ServedAt(s)
  BY NetAssumption DEF NetInit, ServedAt
<1>5. QED
  BY <1>1, <1>2, <1>3, <1>4 DEF NetInv

LEMMA NetStep == NetInv /\ [NetNext]_allVars => NetInv'
<1> SUFFICES ASSUME NetInv, [NetNext]_allVars PROVE NetInv'
  OBVIOUS
<1>1. ASSUME NEW c \in Client, ClientStep(c) PROVE NetInv'
  BY <1>1, ConnectStep, ConnectFailsStep, SendStep, SendFailsStep, TakePutReplyStep,
     TakeValuesStep, EndOfStreamStep, ReadErrorStep DEF ClientStep
<1>2. ASSUME NEW s \in Server, NEW c \in Client,
             ReadPut(s, c) \/ ReadOther(s, c) \/ Hangup(s, c)
      PROVE  NetInv'
  BY <1>2, ReadPutStep, ReadOtherStep, HangupStep
<1>3. ASSUME NEW s \in Server, Inserting(s) PROVE NetInv'
  <2>1. UNCHANGED log
    BY <1>3 DEF Inserting, ServerStep, HashInsert, HashFull, SeeRoom, PushTask
  <2>2. QED
    BY <1>3, <2>1, EngineOnlyStep DEF Inserting, Next
<1>4. ASSUME NEW s \in Server, AnswerPut(s) PROVE NetInv'
  BY <1>4, AnswerPutStep
<1>5. ASSUME NEW b \in Drained, Indexing(b) PROVE NetInv'
  <2>1. UNCHANGED log
    BY <1>5 DEF Indexing, BackendStep, PopTask, IndexTask
  <2>2. QED
    BY <1>5, <2>1, EngineOnlyStep DEF Indexing, Next
<1>6. CASE Stop
  BY <1>6, StopStep
<1>7. CASE UNCHANGED allVars
  <2>1. UNCHANGED <<log, netVars>>
    BY <1>7 DEF allVars, vars
  <2>2. TypeInv'
    BY <1>7 DEF NetInv, allVars, vars, TypeInv, TypeOK, Lengths
  <2>3. ASSUME NEW d \in Client PROVE ClientInv(d)'
    <3>1. Served(d)' <=> Served(d)
      BY <2>1 DEF Served, netVars
    <3>2. QED
      BY <2>1, <3>1, ClientFrame DEF NetInv, netVars
  <2>4. \A t \in Server : ServedAt(t)'
    BY <2>1, ServedFrame DEF netVars
  <2>5. NetTypes'
    BY <2>1 DEF NetInv, NetTypes, netVars
  <2>6. QED
    BY <2>2, <2>3, <2>4, <2>5 DEF NetInv
<1>8. QED
  BY <1>1, <1>2, <1>3, <1>4, <1>5, <1>6, <1>7 DEF NetNext, ThreadStep

LEMMA NetInvariant == NetSpec => []NetInv
  BY NetInit0, NetStep, PTL DEF NetSpec

(* No client asks for more than it was told to, or takes more of a reply   *)
(* than it waits for (client.cc send_request).                             *)
THEOREM NetTypesCorrect == NetSpec => []NetTypeOK
<1>1. NetInv => NetTypeOK
  <2> SUFFICES ASSUME NetInv PROVE NetTypeOK
    OBVIOUS
  <2>1. server \in {"up", "down"} /\ serving \in [Server -> Client \cup {Nobody}]
    BY DEF NetInv, NetTypes
  <2>2. ASSUME NEW c \in Client
        PROVE  /\ cl[c].pc \in {"put", "putWait"} => cl[c].n < NumPut
               /\ cl[c].pc \in {"get", "getWait"} => cl[c].n < NumGet
               /\ cl[c].tot >= -1 /\ (Waiting(c) => cl[c].tot < Expected(c))
               /\ cl[c].ins \in 0 .. NumPut /\ cl[c].scans \in 0 .. NumScan
    BY ClientTypes, SizeFacts DEF NetInv, ClientInv, PhaseAt
  <2>3. QED
    BY <2>1, <2>2, ClientTypes DEF NetInv, NetTypeOK
<1>2. QED
  BY <1>1, NetInvariant, PTL

(* Requests and replies never get out of step: a client that waits has     *)
(* exactly one request or the rest of one reply under way, for any size of *)
(* the pieces (server.cc read_cb, client.cc send_request).                 *)
THEOREM ClientsStayInStep == NetSpec => []InStep
<1>1. NetInv => InStep
  <2> SUFFICES ASSUME NetInv, server = "up", NEW c \in Client
               PROVE  Idle(c) \/ (Asking(c) /\ Len(conn[c].up) = 1)
                      \/ (Putting(c) /\ Waiting(c)) \/ Answered(c)
    BY DEF InStep, Idle, Asking, Putting, Answered
  <2>1. Idle(c) \/ Asking(c) \/ Putting(c) \/ Answered(c)
    BY DEF NetInv, ClientInv, StepAt, LinkAt, Lost
  <2>2. Putting(c) => Waiting(c)
    BY DEF Putting, Waiting
  <2>3. Asking(c) => Len(conn[c].up) = 1
    <3>1. ASSUME NEW r PROVE Len(<< r >>) = 1
      OBVIOUS
    <3>2. QED
      BY <3>1 DEF Asking
  <2>4. QED
    BY <2>1, <2>2, <2>3
<1>2. QED
  BY <1>1, NetInvariant, PTL

-----------------------------------------------------------------------------
(* What a thread's hash table will ever say of a key is settled once it    *)
(* has accepted a record of the key, or has no slot left for the key.      *)
Full(s, k) == \A p \in Probe : ~Free(table[s], k, p)

Settled(s, k) == Accepted(s, k) # {} \/ Full(s, k)

MissedAt(s, k) == Accepted(s, k) = {} \/ 0 \in Accepted(s, k)

(* It is settled for every key that has been put.                          *)
AllSettled == \A s \in Server : \A n \in 1 .. Len(result[s]) : Settled(s, log[s][n])

LEMMA Appended ==
  ASSUME NEW B, NEW q \in Seq(B), NEW e \in B
  PROVE  /\ Len(q) \in Nat /\ Len(Append(q, e)) = Len(q) + 1
         /\ Append(q, e)[Len(q) + 1] = e
         /\ \A n \in 1 .. Len(q) : Append(q, e)[n] = q[n]
<1>1. Len(q) \in Nat
  BY LenProperties
<1>2. QED
  BY <1>1, AppendProperties

LEMMA AnswerAppended ==
  ASSUME NEW q \in Seq(BOOLEAN), NEW e \in BOOLEAN
  PROVE  /\ Len(q) \in Nat /\ Len(Append(q, e)) = Len(q) + 1
         /\ Append(q, e)[Len(q) + 1] = e
         /\ \A n \in 1 .. Len(q) : Append(q, e)[n] = q[n]
<1>1. PICK B : B = BOOLEAN
  OBVIOUS
<1>2. q \in Seq(B) /\ e \in B
  BY <1>1
<1>3. QED
  BY <1>2, Appended

LEMMA LongerDiffers ==
  ASSUME NEW p, NEW q, Len(q) \in Nat, Len(p) = Len(q) + 1
  PROVE  p # q
<1>1. PICK n \in Nat : n = Len(q)
  OBVIOUS
<1>2. Len(p) # Len(q)
  BY <1>1
<1>3. QED
  BY <1>2, Zenon

(* What a step does to the answers of thread r.                            *)
LEMMA ResultStep ==
  ASSUME TableInv, [Next]_vars, NEW r \in Server
  PROVE  \/ result'[r] = result[r] /\ ~HashInsert(r)
         \/ HashInsert(r) /\ result'[r] = Append(result[r], TRUE) /\ log' = log
         \/ HashFull(r) /\ result'[r] = Append(result[r], FALSE) /\ log' = log
<1>1. /\ pc \in [Server -> {"idle", "hash", "room", "push"}]
      /\ result \in [Server -> Seq(BOOLEAN)]
  BY DEF TableInv, TypeInv, TypeOK
<1>2. ASSUME NEW s \in Server, NEW k \in Key, AppendLog(s, k)
      PROVE  result' = result /\ (s = r => pc[r] = "idle") /\ pc'[s] = "hash"
  BY <1>1, <1>2 DEF AppendLog
<1>3. ASSUME NEW s \in Server, SeeRoom(s) \/ PushTask(s) PROVE result' = result /\ table' = table
  BY <1>3 DEF SeeRoom, PushTask
<1>4. ASSUME NEW b \in Drained, BackendStep(b) PROVE result' = result /\ table' = table
  BY <1>4 DEF BackendStep, PopTask, IndexTask
<1>5. HashInsert(r) => result'[r] = Append(result[r], TRUE) /\ log' = log /\ result' # result
  <2>1. ASSUME NEW q \in Seq(BOOLEAN) PROVE Append(q, TRUE) # q
    BY LongerDiffers, AnswerAppended
  <2>2. result[r] \in Seq(BOOLEAN)
    BY <1>1
  <2>3. HashInsert(r) => result'[r] = Append(result[r], TRUE) /\ log' = log
    BY <1>1 DEF HashInsert
  <2>4. QED
    BY <2>1, <2>2, <2>3
<1>6. HashFull(r) => result'[r] = Append(result[r], FALSE) /\ log' = log
  BY <1>1 DEF HashFull
<1>7. ASSUME NEW s \in Server, s # r, HashInsert(s) \/ HashFull(s)
      PROVE  result'[r] = result[r]
  BY <1>1, <1>7 DEF HashInsert, HashFull
<1>8. result'[r] = result[r] => ~HashInsert(r)
  <2>1. ASSUME NEW q \in Seq(BOOLEAN) PROVE Append(q, TRUE) # q
    BY LongerDiffers, AnswerAppended
  <2>2. QED
    BY <1>1, <1>5, <2>1
<1>9. result'[r] = result[r] \/ HashInsert(r) \/ HashFull(r)
  BY <1>2, <1>3, <1>4, <1>7 DEF Next, ServerStep, vars
<1>10. QED
  BY <1>5, <1>6, <1>8, <1>9

(* The accepted records of a key grow by the one that is being inserted.   *)
LEMMA AcceptedStep ==
  ASSUME TableInv, [Next]_vars, NEW s \in Server, NEW k
  PROVE  Accepted(s, k)' = Accepted(s, k) \cup
           (IF HashInsert(s) /\ log[s][Len(log[s])] = k THEN {Len(result[s])} ELSE {})
<1>1. /\ result[s] \in Seq(BOOLEAN) /\ log[s] \in Seq(Key)
      /\ Len(result[s]) \in Nat /\ Len(log[s]) \in Nat
      /\ Len(result[s]) <= Len(log[s])
      /\ pc[s] = "hash" => Len(log[s]) = Len(result[s]) + 1
  BY LenProperties DEF TableInv, TypeInv, TypeOK, Lengths
<1>2. \A n \in 1 .. Len(log[s]) : log'[s][n] = log[s][n]
  BY StepKeeps
<1>3. CASE result'[s] = result[s] /\ ~HashInsert(s)
  BY <1>1, <1>2, <1>3 DEF Accepted
<1>4. CASE HashInsert(s) /\ result'[s] = Append(result[s], TRUE) /\ log' = log
  <2>1. Len(log[s]) = Len(result[s]) + 1
    BY <1>1, <1>4 DEF HashInsert
  <2>2. /\ Len(result'[s]) = Len(result[s]) + 1 /\ result'[s][Len(result[s]) + 1] = TRUE
        /\ \A n \in 1 .. Len(result[s]) : result'[s][n] = result[s][n]
    <3>1. TRUE \in BOOLEAN
      OBVIOUS
    <3>2. QED
      BY <1>1, <1>4, <3>1, AnswerAppended, ZenonT(60)
  <2>3. QED
    BY <1>1, <1>4, <2>1, <2>2 DEF Accepted
<1>5. CASE HashFull(s) /\ result'[s] = Append(result[s], FALSE) /\ log' = log
  <2>1. /\ Len(result'[s]) = Len(result[s]) + 1 /\ result'[s][Len(result[s]) + 1] = FALSE
        /\ \A n \in 1 .. Len(result[s]) : result'[s][n] = result[s][n]
    <3>1. FALSE \in BOOLEAN
      OBVIOUS
    <3>2. QED
      BY <1>1, <1>5, <3>1, AnswerAppended, ZenonT(60)
  <2>2. ~HashInsert(s)
    BY <1>1, <1>5 DEF HashInsert, HashFull, FirstFree
  <2>3. QED
    BY <1>1, <1>5, <2>1, <2>2 DEF Accepted
<1>6. QED
  BY <1>3, <1>4, <1>5, ResultStep

LEMMA SettledKept ==
  ASSUME TableInv, [Next]_vars, NEW s \in Server, NEW k \in Key, Settled(s, k)
  PROVE  Settled(s, k)' /\ (MissedAt(s, k)' <=> MissedAt(s, k))
<1>1. Accepted(s, k)' = Accepted(s, k) \cup
           (IF HashInsert(s) /\ log[s][Len(log[s])] = k THEN {Len(result[s])} ELSE {})
  BY AcceptedStep
<1>2. Len(result[s]) \in Nat /\ result[s] \in Seq(BOOLEAN)
  BY LenProperties DEF TableInv, TypeInv, TypeOK
<1>3. CASE Accepted(s, k) # {}
  <2>1. Len(result[s]) # 0
    BY <1>2, <1>3 DEF Accepted
  <2>2. 0 \in Accepted(s, k)' <=> 0 \in Accepted(s, k)
    BY <1>1, <2>1
  <2>3. Accepted(s, k)' # {}
    BY <1>1, <1>3
  <2>4. QED
    BY <1>3, <2>2, <2>3 DEF Settled, MissedAt
<1>4. CASE Full(s, k)
  <2>1. ~(HashInsert(s) /\ log[s][Len(log[s])] = k)
    BY <1>4 DEF HashInsert, FirstFree, Full
  <2>2. Accepted(s, k)' = Accepted(s, k)
    BY <1>1, <2>1
  <2>3. Full(s, k)'
    <3> SUFFICES ASSUME NEW p \in Probe, Free(table'[s], k, p) PROVE FALSE
      BY DEF Full
    <3>1. /\ p[1] \in Slot /\ BucketOf(k, p[2]) \in Bucket
      <4>1. table[s] \in Table
        BY DEF TableInv, TypeInv, TypeOK, Table
      <4>2. QED
        BY <4>1, AtType
    <3>2. UsedKept(table[s], table'[s])
      BY StepKeeps
    <3>3. At(table'[s], k, p).sig = 0
      BY DEF Free
    <3>4. At(table[s], k, p).sig = 0
      BY <3>1, <3>2, <3>3 DEF UsedKept, At
    <3>5. Free(table[s], k, p)
      BY <3>4 DEF Free
    <3>6. QED
      BY <1>4, <3>5 DEF Full
  <2>4. QED
    BY <2>2, <2>3 DEF Settled, MissedAt
<1>5. QED
  BY <1>3, <1>4 DEF Settled

LEMMA AllSettledStep ==
  ASSUME TableInv, [Next]_vars, AllSettled
  PROVE  AllSettled'
<1> SUFFICES ASSUME NEW s \in Server, NEW n \in 1 .. Len(result'[s]),
                    NEW k, k = log'[s][n]
             PROVE  Settled(s, k)'
  BY DEF AllSettled, Settled, Accepted, Full
<1>1. /\ result[s] \in Seq(BOOLEAN) /\ log[s] \in Seq(Key)
      /\ Len(result[s]) \in Nat /\ Len(log[s]) \in Nat
      /\ Len(result[s]) <= Len(log[s])
      /\ pc[s] = "hash" => Len(log[s]) = Len(result[s]) + 1
  BY LenProperties DEF TableInv, TypeInv, TypeOK, Lengths
<1>2. \/ result'[s] = result[s]
      \/ HashInsert(s) /\ result'[s] = Append(result[s], TRUE) /\ log' = log
      \/ HashFull(s) /\ result'[s] = Append(result[s], FALSE) /\ log' = log
  BY ResultStep
<1>3. n \in 1 .. Len(result[s]) \/ ((HashInsert(s) \/ HashFull(s)) /\ n = Len(result[s]) + 1)
  <2>1. ASSUME NEW e \in BOOLEAN PROVE Len(Append(result[s], e)) = Len(result[s]) + 1
    BY <1>1, AnswerAppended
  <2>2. /\ Len(Append(result[s], TRUE)) = Len(result[s]) + 1
        /\ Len(Append(result[s], FALSE)) = Len(result[s]) + 1
    BY <2>1
  <2>3. Len(result'[s]) = Len(result[s]) \/ HashInsert(s) \/ HashFull(s)
    BY <1>2, Zenon
  <2>4. Len(result'[s]) \in {Len(result[s]), Len(result[s]) + 1}
    BY <1>2, <2>2, Zenon
  <2>5. QED
    BY <1>1, <2>3, <2>4
<1>4. CASE n \in 1 .. Len(result[s])
  <2>1. n \in 1 .. Len(log[s])
    BY <1>1, <1>4
  <2>2. log[s][n] \in Key /\ log'[s][n] = log[s][n]
    BY <1>1, <2>1, StepKeeps
  <2>3. Settled(s, log[s][n])
    BY <1>4 DEF AllSettled
  <2>4. k \in Key /\ Settled(s, k)
    BY <2>2, <2>3, Zenon
  <2>5. QED
    BY <2>4, SettledKept
<1>5. CASE n = Len(result[s]) + 1 /\ HashInsert(s)
  <2>1. n = Len(log[s]) /\ log' = log
    BY <1>1, <1>5 DEF HashInsert
  <2>2. Len(result[s]) \in Accepted(s, k)'
    BY <1>5, <2>1, AcceptedStep
  <2>3. QED
    BY <2>2 DEF Settled
<1>6. CASE n = Len(result[s]) + 1 /\ HashFull(s)
  <2>1. n = Len(log[s]) /\ log' = log /\ table' = table
    BY <1>1, <1>6 DEF HashFull
  <2>2. \A p \in Probe : ~Free(table'[s], k, p)
    BY <1>6, <2>1 DEF HashFull
  <2>3. QED
    BY <2>2 DEF Settled, Full
<1>7. QED
  BY <1>3, <1>4, <1>5, <1>6

(* A get misses a key as the log and the answers say it must.              *)
LEMMA FoundIs ==
  ASSUME TableInv, NEW s \in Server, NEW k \in Key, CollisionFree(k)
  PROVE  Search(s, k) = None <=> MissedAt(s, k)
<1>1. IF Accepted(s, k) = {}
      THEN HashSearch(table[s], k) = 0
      ELSE /\ HashSearch(table[s], k) \in Accepted(s, k)
           /\ \A off \in Accepted(s, k) : HashSearch(table[s], k) <= off
  BY OldestFound DEF FirstPutWins
<1>2. \A off \in Accepted(s, k) : off \in Nat /\ log[s][off + 1] = k
  <2>1. Len(result[s]) \in Nat
    BY LenProperties DEF TableInv, TypeInv, TypeOK
  <2>2. QED
    BY <2>1 DEF Accepted
<1>3. CASE Accepted(s, k) = {}
  BY <1>1, <1>3 DEF Search, MissedAt
<1>4. CASE Accepted(s, k) # {} /\ HashSearch(table[s], k) = 0
  BY <1>1, <1>4 DEF Search, MissedAt
<1>5. CASE Accepted(s, k) # {} /\ HashSearch(table[s], k) # 0
  <2>1. 0 \notin Accepted(s, k)
    BY <1>1, <1>2, <1>5
  <2>2. Search(s, k) = HashSearch(table[s], k)
    BY <1>1, <1>2, <1>5 DEF Search
  <2>3. QED
    BY <1>1, <1>2, <1>5, <2>1, <2>2 DEF MissedAt, None
<1>6. QED
  BY <1>3, <1>4, <1>5

(* A step of the server is a step of the engine or none for the engine.    *)
LEMMA EngineStep == NetInv /\ [NetNext]_allVars => [Next]_vars
<1> SUFFICES ASSUME NetInv, NetNext \/ UNCHANGED allVars PROVE Next \/ UNCHANGED vars
  OBVIOUS
<1>1. ASSUME NEW c \in Client, ClientStep(c) PROVE UNCHANGED vars
  BY <1>1 DEF ClientStep, Connect, ConnectFails, SendPut, SendGet, SendScan, Write,
     SendFails, TakePutReply, TakeValues, Take, EndOfStream, ReadError
<1>2. ASSUME NEW s \in Server, NEW c \in Client, ReadPut(s, c) PROVE Next
  BY <1>2, ReadPutFacts DEF Next
<1>3. ASSUME NEW s \in Server, NEW c \in Client, ReadOther(s, c) \/ Hangup(s, c)
      PROVE  UNCHANGED vars
  BY <1>3 DEF ReadOther, Hangup
<1>4. ASSUME NEW s \in Server, Inserting(s) PROVE Next
  BY <1>4 DEF Inserting, Next
<1>5. ASSUME NEW s \in Server, AnswerPut(s) PROVE UNCHANGED vars
  BY <1>5 DEF AnswerPut
<1>6. ASSUME NEW b \in Drained, Indexing(b) PROVE Next
  BY <1>6 DEF Indexing, Next
<1>7. Stop => UNCHANGED vars
  BY DEF Stop
<1>8. QED
  BY <1>1, <1>2, <1>3, <1>4, <1>5, <1>6, <1>7 DEF NetNext, ThreadStep, allVars

-----------------------------------------------------------------------------
(* What a client may rely on.  The keys it has put, and the connection     *)
(* that has brought every answer so far.                                   *)
PutKeys(c) ==
  LET n == IF cl[c].pc \in {"new", "exit"} THEN 0
           ELSE IF cl[c].pc \in {"put", "putWait"} THEN cl[c].n ELSE NumPut
  IN  {KeyOf[c][i] : i \in 1 .. n}

Linked(c) == conn[c].fd = "open" /\ conn[c].state \in {"open", "fin"}

PutsAt(c) ==
  \A s \in Server, k \in PutKeys(c) :
    conn[c].thread = s /\ Linked(c) => Settled(s, k)

PutReplyAt(c) ==
  \A s \in Server, k \in Key :
    conn[c].thread = s /\ cl[c].pc = "putWait" /\ conn[c].down # << >>
      /\ k = KeyOf[c][cl[c].n + 1] => Settled(s, k)

(* A reply to gets stays true while it travels.                            *)
GetReplyAt(c) ==
  \A s \in Server, k \in Key, i \in 1 .. NumBatch :
    conn[c].thread = s /\ cl[c].pc = "getWait" /\ conn[c].down # << >>
      /\ k = KeyOf[c][cl[c].n + i] /\ CollisionFree(k) =>
        Settled(s, k) /\ (~Piece(c).what[i] <=> MissedAt(s, k))

AskedAt(c) ==
  \A s \in Server, k \in Asked(c) :
    conn[c].thread = s /\ CollisionFree(k) =>
      Settled(s, k) /\ (k \in cl[c].missed <=> MissedAt(s, k))

MissedIn(c) == cl[c].pc # "exit" => cl[c].missed \subseteq Asked(c)

ReadInv(c) == PutsAt(c) /\ PutReplyAt(c) /\ GetReplyAt(c) /\ AskedAt(c) /\ MissedIn(c)

LEMMA KeySets ==
  ASSUME NetTypes, NEW c \in Client, PhaseAt(c)
  PROVE  PutKeys(c) \subseteq Key /\ Asked(c) \subseteq Key
<1>1. cl[c].n \in Nat /\ \A i \in 1 .. NumPut : KeyOf[c][i] \in Key
  BY ClientTypes, KeyTypes
<1>2. PutKeys(c) \subseteq Key
  <2> DEFINE n == IF cl[c].pc \in {"new", "exit"} THEN 0
                  ELSE IF cl[c].pc \in {"put", "putWait"} THEN cl[c].n ELSE NumPut
  <2>1. n \in Nat /\ n <= NumPut
    BY <1>1, SizeFacts DEF PhaseAt
  <2>2. PutKeys(c) = {KeyOf[c][i] : i \in 1 .. n}
    BY DEF PutKeys
  <2> HIDE DEF n
  <2>3. QED
    BY <1>1, <2>1, <2>2, SizeFacts
<1>3. Asked(c) \subseteq Key
  <2> DEFINE n == IF cl[c].pc \in {"new", "put", "putWait"} THEN 0
                  ELSE IF cl[c].pc \in {"get", "getWait"} THEN cl[c].n
                  ELSE IF cl[c].pc = "exit" THEN 0 ELSE NumGet
  <2>1. n \in Nat /\ n <= NumPut
    BY <1>1, SizeFacts DEF PhaseAt
  <2>2. Asked(c) = {KeyOf[c][i] : i \in 1 .. n}
    BY DEF Asked
  <2> HIDE DEF n
  <2>3. QED
    BY <1>1, <2>1, <2>2, SizeFacts
<1>4. QED
  BY <1>2, <1>3

(* A client that does nothing, while others put what they like, loses      *)
(* nothing.                                                                *)
LEMMA ReadFrame ==
  ASSUME NetInv, TableInv, [Next]_vars, NEW c \in Client, ReadInv(c),
         cl'[c].pc = cl[c].pc, cl'[c].n = cl[c].n, cl'[c].missed = cl[c].missed,
         conn'[c].thread = conn[c].thread, Linked(c)' => Linked(c),
         \/ conn'[c].down = << >>
         \/ conn[c].down # << >> /\ Piece(c)'.what = Piece(c).what
  PROVE  ReadInv(c)'
<1>1. /\ PutKeys(c)' = PutKeys(c) /\ Asked(c)' = Asked(c)
      /\ PutKeys(c) \subseteq Key /\ Asked(c) \subseteq Key
  BY KeySets DEF NetInv, ClientInv, PutKeys, Asked
<1>2. \A s \in Server, k \in Key : Settled(s, k) =>
        Settled(s, k)' /\ (MissedAt(s, k)' <=> MissedAt(s, k))
  BY SettledKept
<1>3. PutsAt(c)'
  BY <1>1, <1>2 DEF ReadInv, PutsAt
<1>4. PutReplyAt(c)'
  BY <1>2 DEF ReadInv, PutReplyAt
<1>5. GetReplyAt(c)'
  BY <1>2 DEF ReadInv, GetReplyAt
<1>6. AskedAt(c)'
  BY <1>1, <1>2 DEF ReadInv, AskedAt
<1>7. MissedIn(c)'
  BY <1>1 DEF ReadInv, MissedIn
<1>8. QED
  BY <1>3, <1>4, <1>5, <1>6, <1>7 DEF ReadInv

(* A client whose process has ended reads nothing.                         *)
LEMMA ReadExit ==
  ASSUME NEW c \in Client, cl'[c].pc = "exit"
  PROVE  ReadInv(c)'
<1>1. PutKeys(c)' = {} /\ Asked(c)' = {}
  BY DEF PutKeys, Asked
<1>2. QED
  BY <1>1 DEF ReadInv, PutsAt, PutReplyAt, GetReplyAt, AskedAt, MissedIn

LEMMA ReadConnect ==
  ASSUME NetInv, NEW c \in Client, ReadInv(c), NEW s \in Server, Connect(c, s)
  PROVE  ReadInv(c)'
<1>1. /\ NetTypes /\ PhaseAt(c) /\ cl[c].pc = "new" /\ cl[c] \in ClientRec
  BY ClientTypes DEF NetInv, ClientInv, Connect
<1>2. cl'[c].pc = "put" /\ cl'[c].n = 0 /\ cl'[c].missed = cl[c].missed
  BY <1>1 DEF Connect, NetTypes, PhaseAt, ClientRec
<1>3. PutKeys(c)' = {} /\ Asked(c)' = {} /\ Asked(c) = {}
  BY <1>1, <1>2 DEF PutKeys, Asked
<1>4. QED
  BY <1>1, <1>2, <1>3 DEF ReadInv, PutsAt, PutReplyAt, GetReplyAt, AskedAt, MissedIn

(* The next client step, as the sets of keys see it.                       *)
LEMMA FinishKeys ==
  ASSUME NetInv, NEW c \in Client, Finishes(c, cl'[c])
  PROVE  /\ cl[c].pc = "putWait" =>
              /\ PutKeys(c)' = PutKeys(c) \cup {KeyOf[c][cl[c].n + 1]}
              /\ Asked(c)' = {} /\ Asked(c) = {}
         /\ cl[c].pc # "putWait" => PutKeys(c)' = PutKeys(c)
         /\ cl[c].pc = "getWait" =>
              Asked(c)' = Asked(c) \cup {KeyOf[c][cl[c].n + i] : i \in 1 .. NumBatch}
         /\ cl[c].pc = "scanWait" => Asked(c)' = Asked(c)
         /\ cl'[c].pc \in {"put", "get", "scan", "done"}
<1>1. /\ NetTypes /\ PhaseAt(c) /\ cl[c].n \in Nat /\ cl[c].pc \in {"putWait", "getWait", "scanWait"}
      /\ cl'[c].pc \in {"put", "get", "scan", "done"}
  BY ClientTypes DEF NetInv, ClientInv, Finishes
<1>2. CASE cl[c].pc = "putWait"
  <2>1. PICK n \in Nat : n = cl[c].n /\ n < NumPut
    BY <1>1, <1>2 DEF PhaseAt
  <2>2. PutKeys(c) = {KeyOf[c][i] : i \in 1 .. n}
    BY <1>2, <2>1 DEF PutKeys
  <2>3. PutKeys(c)' = {KeyOf[c][i] : i \in 1 .. n + 1}
    <3>1. CASE n + 1 < NumPut
      BY <1>2, <2>1, <3>1 DEF PutKeys, Finishes
    <3>2. CASE ~(n + 1 < NumPut)
      <4>1. n + 1 = NumPut
        BY <2>1, <3>2, SizeFacts
      <4>2. QED
        BY <1>2, <2>1, <3>2, <4>1 DEF PutKeys, Finishes
    <3>3. QED
      BY <3>1, <3>2
  <2>4. 1 .. n + 1 = (1 .. n) \cup {n + 1}
    BY <2>1
  <2>5. Asked(c)' = {} /\ Asked(c) = {}
    BY <1>2, <2>1 DEF Asked, Finishes
  <2>6. QED
    BY <1>1, <1>2, <2>1, <2>2, <2>3, <2>4, <2>5
<1>3. CASE cl[c].pc = "getWait"
  <2>1. PICK n \in Nat : n = cl[c].n /\ n + NumBatch <= NumGet
    BY <1>1, <1>3, GetFacts
  <2>2. PutKeys(c)' = PutKeys(c)
    BY <1>3 DEF PutKeys, Finishes
  <2>3. Asked(c) = {KeyOf[c][i] : i \in 1 .. n}
    BY <1>3, <2>1 DEF Asked
  <2>4. Asked(c)' = {KeyOf[c][i] : i \in 1 .. n + NumBatch}
    <3>1. CASE n + NumBatch < NumGet
      BY <1>3, <2>1, <3>1 DEF Asked, Finishes
    <3>2. CASE ~(n + NumBatch < NumGet)
      <4>1. n + NumBatch = NumGet
        BY <2>1, <3>2, SizeFacts
      <4>2. QED
        BY <1>3, <2>1, <3>2, <4>1 DEF Asked, Finishes
    <3>3. QED
      BY <3>1, <3>2
  <2>5. {KeyOf[c][i] : i \in 1 .. n + NumBatch} =
          {KeyOf[c][i] : i \in 1 .. n} \cup {KeyOf[c][n + i] : i \in 1 .. NumBatch}
    <3>1. ASSUME NEW i \in 1 .. n + NumBatch
          PROVE  i \in 1 .. n \/ \E j \in 1 .. NumBatch : i = n + j
      <4>1. i \in 1 .. n \/ i - n \in 1 .. NumBatch
        BY <2>1, SizeFacts
      <4>2. i = n + (i - n)
        BY <2>1
      <4>3. QED
        BY <4>1, <4>2
    <3>2. \A j \in 1 .. NumBatch : n + j \in 1 .. n + NumBatch
      BY <2>1, SizeFacts
    <3>3. 1 .. n \subseteq 1 .. n + NumBatch
      BY <2>1, SizeFacts
    <3>4. QED
      BY <3>1, <3>2, <3>3
  <2>6. QED
    BY <1>1, <1>3, <2>1, <2>2, <2>3, <2>4, <2>5
<1>4. CASE cl[c].pc = "scanWait"
  <2>1. PutKeys(c)' = PutKeys(c) /\ Asked(c)' = Asked(c)
    BY <1>4 DEF PutKeys, Asked, Finishes
  <2>2. QED
    BY <1>1, <1>4, <2>1
<1>5. QED
  BY <1>1, <1>2, <1>3, <1>4

(* A client goes on after a put it has been answered, or whose connection  *)
(* is broken, and after a scan.                                            *)
LEMMA ReadFinish ==
  ASSUME NetInv, TableInv, UNCHANGED vars, NEW c \in Client, ReadInv(c),
         Finishes(c, cl'[c]), cl[c].pc # "getWait",
         conn'[c].thread = conn[c].thread, Linked(c)' => Linked(c),
         cl[c].pc = "putWait" /\ Linked(c)' => conn[c].down # << >>
  PROVE  ReadInv(c)'
<1>1. /\ PutKeys(c) \subseteq Key /\ Asked(c) \subseteq Key
      /\ cl[c].pc \in {"putWait", "scanWait"} /\ cl'[c].missed = cl[c].missed
      /\ NetTypes /\ PhaseAt(c)
  BY KeySets DEF NetInv, ClientInv, Finishes
<1>2. \A s \in Server, k \in Key : Settled(s, k) =>
        Settled(s, k)' /\ (MissedAt(s, k)' <=> MissedAt(s, k))
  BY SettledKept
<1>3. /\ Asked(c)' = Asked(c)
      /\ cl'[c].pc \in {"put", "get", "scan", "done"}
      /\ cl[c].pc = "putWait" => PutKeys(c)' = PutKeys(c) \cup {KeyOf[c][cl[c].n + 1]}
      /\ cl[c].pc = "scanWait" => PutKeys(c)' = PutKeys(c)
  BY <1>1, FinishKeys
<1>4. PutsAt(c)'
  <2> SUFFICES ASSUME NEW s \in Server, NEW k \in PutKeys(c)',
                      conn'[c].thread = s, Linked(c)'
               PROVE  Settled(s, k)'
    BY DEF PutsAt
  <2>1. CASE k \in PutKeys(c)
    <3>1. Settled(s, k)
      BY <2>1 DEF ReadInv, PutsAt
    <3>2. QED
      BY <1>1, <1>2, <2>1, <3>1
  <2>2. CASE k \notin PutKeys(c)
    <3>1. cl[c].pc = "putWait" /\ k = KeyOf[c][cl[c].n + 1] /\ conn[c].down # << >>
      BY <1>1, <1>3, <2>2
    <3>2. k \in Key
      BY <1>1, <3>1, ClientTypes, KeyTypes, SizeFacts DEF PhaseAt
    <3>3. Settled(s, k)
      BY <3>1, <3>2 DEF ReadInv, PutReplyAt
    <3>4. QED
      BY <1>2, <3>2, <3>3
  <2>3. QED
    BY <2>1, <2>2
<1>5. AskedAt(c)'
  BY <1>1, <1>2, <1>3 DEF ReadInv, AskedAt
<1>6. PutReplyAt(c)' /\ GetReplyAt(c)'
  BY <1>3 DEF PutReplyAt, GetReplyAt
<1>7. MissedIn(c)'
  BY <1>1, <1>3 DEF ReadInv, MissedIn
<1>8. QED
  BY <1>4, <1>5, <1>6, <1>7 DEF ReadInv

(* A client notes which keys its gets have missed.                         *)
LEMMA ReadGets ==
  ASSUME NetInv, TableInv, UNCHANGED vars, NEW c \in Client, ReadInv(c),
         Finishes(c, cl'[c]), cl[c].pc = "getWait", conn[c].down # << >>,
         cl'[c].missed = NowMissed(c),
         conn'[c].thread = conn[c].thread, Linked(c)' => Linked(c)
  PROVE  ReadInv(c)'
<1>1. /\ PutKeys(c) \subseteq Key /\ Asked(c) \subseteq Key
      /\ NetTypes /\ PhaseAt(c) /\ Batch(c) = NumBatch
  BY KeySets, GetFacts DEF NetInv, ClientInv
<1>2. \A s \in Server, k \in Key : Settled(s, k) =>
        Settled(s, k)' /\ (MissedAt(s, k)' <=> MissedAt(s, k))
  BY SettledKept
<1> DEFINE new == {KeyOf[c][cl[c].n + i] : i \in 1 .. NumBatch}
           gone == {KeyOf[c][cl[c].n + i] : i \in {j \in 1 .. NumBatch : ~Piece(c).what[j]}}
<1>3. /\ PutKeys(c)' = PutKeys(c) /\ Asked(c)' = Asked(c) \cup new
      /\ cl'[c].pc \in {"put", "get", "scan", "done"}
  BY FinishKeys
<1>4. new \subseteq Key
  <2>1. \A i \in 1 .. NumBatch : KeyOf[c][cl[c].n + i] \in Key
    <3>1. PICK n \in Nat : n = cl[c].n /\ n + NumBatch <= NumGet
      BY <1>1, GetFacts, ClientTypes
    <3>2. \A i \in 1 .. NumBatch : n + i \in 1 .. NumPut
      BY <3>1, SizeFacts
    <3>3. QED
      BY <3>1, <3>2, KeyTypes
  <2>2. QED
    BY <2>1
<1>5. cl'[c].missed = cl[c].missed \cup gone
  BY <1>1 DEF NowMissed
<1>6. gone \subseteq new
  OBVIOUS
<1>7. ASSUME NEW s \in Server, conn[c].thread = s, NEW k \in new, CollisionFree(k)
      PROVE  Settled(s, k) /\ (k \in gone <=> MissedAt(s, k))
  <2>1. \A i \in 1 .. NumBatch : k = KeyOf[c][cl[c].n + i] =>
          Settled(s, k) /\ (~Piece(c).what[i] <=> MissedAt(s, k))
    BY <1>4, <1>7 DEF ReadInv, GetReplyAt
  <2>2. PICK i \in 1 .. NumBatch : k = KeyOf[c][cl[c].n + i]
    BY <1>7
  <2>3. k \in gone => MissedAt(s, k)
    BY <2>1
  <2>4. MissedAt(s, k) => k \in gone
    BY <2>1, <2>2
  <2>5. QED
    BY <2>1, <2>2, <2>3, <2>4
<1> HIDE DEF new, gone
<1>8. AskedAt(c)'
  <2> SUFFICES ASSUME NEW s \in Server, NEW k \in Asked(c)', CollisionFree(k),
                      conn'[c].thread = s
               PROVE  Settled(s, k)' /\ (k \in cl'[c].missed <=> MissedAt(s, k)')
    BY DEF AskedAt
  <2>1. k \in Asked(c) => Settled(s, k) /\ (k \in cl[c].missed <=> MissedAt(s, k))
    BY DEF ReadInv, AskedAt
  <2>2. k \in new => Settled(s, k) /\ (k \in gone <=> MissedAt(s, k))
    BY <1>7
  <2>3. k \in cl[c].missed => k \in Asked(c)
    BY DEF ReadInv, MissedIn
  <2>4. Settled(s, k) /\ (k \in cl'[c].missed <=> MissedAt(s, k))
    BY <1>3, <1>5, <1>6, <2>1, <2>2, <2>3
  <2>5. k \in Key
    BY <1>1, <1>3, <1>4
  <2>6. QED
    BY <1>2, <2>4, <2>5
<1>9. PutsAt(c)'
  BY <1>1, <1>2, <1>3 DEF ReadInv, PutsAt
<1>10. PutReplyAt(c)' /\ GetReplyAt(c)'
  BY <1>3 DEF PutReplyAt, GetReplyAt
<1>11. MissedIn(c)'
  BY <1>3, <1>5, <1>6 DEF ReadInv, MissedIn
<1>12. QED
  BY <1>8, <1>9, <1>10, <1>11 DEF ReadInv

LEMMA ReadSend ==
  ASSUME NetInv, NEW c \in Client, ReadInv(c), SendPut(c) \/ SendGet(c) \/ SendScan(c)
  PROVE  ReadInv(c)'
<1>1. /\ NetTypes /\ ClientInv(c) /\ cl[c].pc \in {"put", "get", "scan"}
      /\ UNCHANGED vars
  BY DEF NetInv, SendPut, SendGet, SendScan, Write
<1>2. conn[c] \in Connection /\ cl[c] \in ClientRec /\ conn[c].down = << >>
  BY <1>1, ClientTypes DEF ClientInv, StepAt, Idle, Asking, Putting, Answered, Lost, Waiting
<1>3. /\ cl'[c].pc = IF cl[c].pc = "put" THEN "putWait"
                     ELSE IF cl[c].pc = "get" THEN "getWait" ELSE "scanWait"
      /\ cl'[c].n = cl[c].n /\ cl'[c].missed = cl[c].missed
  BY <1>1, <1>2 DEF SendPut, SendGet, SendScan, NetTypes, ClientRec
<1>4. /\ conn'[c].thread = conn[c].thread /\ conn'[c].down = << >>
      /\ Linked(c)' => Linked(c)
  <2>1. \E len, keys : Write(c, len, keys)
    BY DEF SendPut, SendGet, SendScan
  <2>2. CASE conn[c].state = "open"
    BY <1>1, <1>2, <2>1, <2>2 DEF Write, NetTypes, Connection, Linked
  <2>3. CASE conn[c].state # "open"
    BY <1>1, <1>2, <2>1, <2>3 DEF Write, NetTypes, Connection, Linked
  <2>4. QED
    BY <2>2, <2>3
<1>5. PutKeys(c)' = PutKeys(c) /\ Asked(c)' = Asked(c)
  BY <1>1, <1>3 DEF PutKeys, Asked
<1>6. \A s \in Server : \A k :
        /\ Settled(s, k)' <=> Settled(s, k)
        /\ MissedAt(s, k)' <=> MissedAt(s, k)
  BY <1>1 DEF vars, Settled, MissedAt, Accepted, Full
<1>7. QED
  BY <1>1, <1>3, <1>4, <1>5, <1>6
     DEF ReadInv, PutsAt, PutReplyAt, GetReplyAt, AskedAt, MissedIn

LEMMA ReadTakePut ==
  ASSUME NetInv, TableInv, NEW c \in Client, ReadInv(c), TakePutReply(c)
  PROVE  ReadInv(c)'
<1>1. UNCHANGED vars /\ Answered(c) /\ NetTypes
  BY TakePutReplyFacts
<1>2. PICK r \in ClientRec : Finishes(c, r) /\ cl' = [cl EXCEPT ![c] = r]
  BY TakePutReplyFacts
<1>3. PICK k \in Connection :
        /\ conn' = [conn EXCEPT ![c] = k]
        /\ k.thread = conn[c].thread /\ k.state = conn[c].state
        /\ k.fd = conn[c].fd /\ k.up = conn[c].up /\ k.down = << >>
  BY TakePutReplyFacts
<1>4. cl'[c] = r /\ conn'[c] = k
  BY <1>1, <1>2, <1>3 DEF NetTypes
<1>5. Linked(c)' => Linked(c)
  BY <1>3, <1>4 DEF Linked
<1>6. cl[c].pc = "putWait" /\ conn[c].down # << >>
  BY DEF TakePutReply, Take
<1>7. QED
  BY <1>1, <1>2, <1>3, <1>4, <1>5, <1>6, ReadFinish

LEMMA ReadTakeValues ==
  ASSUME NetInv, TableInv, NEW c \in Client, ReadInv(c), TakeValues(c)
  PROVE  ReadInv(c)'
<1>1. /\ Answered(c) /\ cl[c].pc \in {"getWait", "scanWait"}
      /\ UNCHANGED vars /\ NetTypes /\ ClientInv(c) /\ conn[c].down # << >>
  BY TakeValuesFacts DEF NetInv, Answered
<1>2. /\ conn'[c].thread = conn[c].thread /\ conn'[c].down = Tail(conn[c].down)
      /\ Linked(c)' => Linked(c)
  <2>1. conn' = [conn EXCEPT ![c] = [conn[c] EXCEPT !.down = Tail(conn[c].down)]]
    BY TakeValuesFacts
  <2>2. conn[c] \in Connection
    BY <1>1, ClientTypes
  <2>3. QED
    BY <1>1, <2>1, <2>2 DEF NetTypes, Connection, Linked
<1>3. CASE cl[c].tot + Piece(c).len < Expected(c)
  <2>1. cl' = [cl EXCEPT ![c] = [cl[c] EXCEPT !.tot = cl[c].tot + Piece(c).len]]
    BY <1>3, TakeValuesFacts
  <2>2. cl'[c].pc = cl[c].pc /\ cl'[c].n = cl[c].n /\ cl'[c].missed = cl[c].missed
    BY <1>1, <2>1, ClientTypes DEF NetTypes, ClientRec
  <2>3. conn'[c].down # << >> /\ Piece(c)'.what = Piece(c).what
    <3>1. PICK n \in Nat, what \in Seq(BOOLEAN) :
             /\ Piece(c).len \in Nat /\ Piece(c).what = what
             /\ cl[c].tot + Piece(c).len = IF (n + 1) * Mss <= Expected(c) THEN (n + 1) * Mss
                                           ELSE Expected(c)
             /\ (n + 1) * Mss < Expected(c) =>
                  Tail(conn[c].down) # << >> /\ Tail(conn[c].down)[1].what = what
      BY <1>1, AnsweredFacts
    <3>2. Expected(c) \in Nat /\ (n + 1) * Mss \in Nat
      BY <1>1, ExpectedFacts, MssFacts DEF ClientInv, Answered
    <3>3. (n + 1) * Mss < Expected(c)
      BY <1>3, <3>1, <3>2
    <3>4. Piece(c)' = conn'[c].down[1]
      <4>1. conn'[c].down \in Seq(PieceRec)
        BY <1>1, <1>2, ClientTypes, HeadTailProperties
      <4>2. conn'[c].down # << >>
        BY <1>2, <3>1, <3>3
      <4>3. QED
        BY <4>1, <4>2 DEF Piece
    <3>5. QED
      BY <1>2, <3>1, <3>3, <3>4
  <2>4. QED
    BY <1>1, <1>2, <2>2, <2>3, ReadFrame
<1>4. CASE ~(cl[c].tot + Piece(c).len < Expected(c)) /\ cl[c].pc = "getWait"
  <2> DEFINE r == [Placed(c, AfterGet(cl[c].n + Batch(c))) EXCEPT !.missed = NowMissed(c)]
  <2>1. Placed(c, AfterGet(cl[c].n + Batch(c))).missed = cl[c].missed
    <3>1. /\ AfterGet(cl[c].n + Batch(c))[1] \in Places
          /\ AfterGet(cl[c].n + Batch(c))[2] \in Nat
      BY <1>1, <1>4, GetFacts, ClientTypes, SizeFacts DEF AfterGet, Places, ClientInv
    <3>2. QED
      BY <1>1, <3>1, PlacedFacts
  <2>2. cl' = [cl EXCEPT ![c] = r]
    BY <1>4, <2>1, TakeValuesFacts DEF NowMissed
  <2>3. r \in ClientRec /\ Finishes(c, r) /\ r.missed = NowMissed(c)
    BY <1>1, <1>4, NowMissedType, GetDone DEF ClientInv
  <2> HIDE DEF r
  <2>4. cl'[c] = r
    BY <1>1, <2>2 DEF NetTypes
  <2>5. QED
    BY <1>1, <1>2, <1>4, <2>3, <2>4, ReadGets
<1>5. CASE ~(cl[c].tot + Piece(c).len < Expected(c)) /\ cl[c].pc = "scanWait"
  <2> DEFINE r == [Placed(c, AfterScan(cl[c].n + 1)) EXCEPT !.scans = @ + 1]
  <2>1. cl' = [cl EXCEPT ![c] = r]
    BY <1>5, TakeValuesFacts
  <2>2. Finishes(c, r)
    BY <1>1, <1>5, ScanDone
  <2> HIDE DEF r
  <2>3. cl'[c] = r
    BY <1>1, <2>1 DEF NetTypes
  <2>4. QED
    BY <1>1, <1>2, <1>5, <2>2, <2>3, ReadFinish
<1>6. QED
  BY <1>1, <1>3, <1>4, <1>5

(* The end of the connection: nothing more is asked of it.                 *)
LEMMA ReadEnds ==
  ASSUME NetInv, TableInv, NEW c \in Client, ReadInv(c), EndOfStream(c) \/ ReadError(c)
  PROVE  ReadInv(c)'
<1>1. /\ Waiting(c) /\ NetTypes /\ ClientInv(c) /\ UNCHANGED vars
      /\ conn[c].down = << >> /\ conn[c] \in Connection
  BY ReadsEnd, ClientTypes DEF EndOfStream, ReadError, NetInv
<1>2. /\ conn'[c].thread = conn[c].thread /\ conn'[c].down = << >> /\ ~Linked(c)'
  BY <1>1 DEF EndOfStream, ReadError, NetTypes, Connection, Linked
<1>3. CASE cl[c].pc = "putWait"
  <2> DEFINE r == Placed(c, AfterPut(cl[c].n + 1))
  <2>1. cl' = [cl EXCEPT ![c] = r] /\ Finishes(c, r)
    BY <1>1, <1>3, GivesUp DEF EndOfStream, ReadError
  <2> HIDE DEF r
  <2>2. cl'[c] = r
    BY <1>1, <2>1 DEF NetTypes
  <2>3. QED
    BY <1>1, <1>2, <1>3, <2>1, <2>2, ReadFinish
<1>4. CASE cl[c].pc # "putWait"
  <2>1. CASE cl' = [cl EXCEPT ![c] = [Placed(c, AfterScan(cl[c].n + 1)) EXCEPT !.scans = @ + 1]]
             /\ cl[c].pc = "scanWait"
    <3> DEFINE r == [Placed(c, AfterScan(cl[c].n + 1)) EXCEPT !.scans = @ + 1]
    <3>1. cl' = [cl EXCEPT ![c] = r] /\ Finishes(c, r)
      BY <1>1, <2>1, ScanDone
    <3> HIDE DEF r
    <3>2. cl'[c] = r
      BY <1>1, <3>1 DEF NetTypes
    <3>3. QED
      BY <1>1, <1>2, <2>1, <3>1, <3>2, ReadFinish
  <2>2. CASE \E t : cl' = [cl EXCEPT ![c] = [cl[c] EXCEPT !.tot = t]]
    <3>1. cl'[c].pc = cl[c].pc /\ cl'[c].n = cl[c].n /\ cl'[c].missed = cl[c].missed
      BY <1>1, <2>2, ClientTypes DEF NetTypes, ClientRec
    <3>2. QED
      BY <1>1, <1>2, <3>1, ReadFrame
  <2>3. CASE cl' = cl
    BY <1>1, <1>2, <2>3, ReadFrame
  <2>4. QED
    BY <1>1, <1>4, <2>1, <2>2, <2>3 DEF EndOfStream, ReadError
<1>5. QED
  BY <1>3, <1>4

(* A put is answered when it is settled.                                   *)
LEMMA ReadAnswerPut ==
  ASSUME NetInv, TableInv, AllSettled, NEW s \in Server, AnswerPut(s),
         NEW c \in Client, ReadInv(c)
  PROVE  ReadInv(c)'
<1>1. /\ NetTypes /\ TypeInv /\ server = "up" /\ serving[s] # Nobody /\ pc[s] = "idle"
      /\ UNCHANGED <<vars, cl>> /\ serving[s] \in Client
  BY DEF AnswerPut, NetInv, NetTypes
<1>2. PICK d \in Client : d = serving[s]
  BY <1>1
<1>3. /\ cl[d].pc = "putWait" /\ conn[d].thread = s
      /\ log[s] # << >> /\ log[s][Len(log[s])] = KeyOf[d][cl[d].n + 1]
  BY <1>1, <1>2 DEF NetInv, ServedAt
<1>4. \A e \in Client : /\ conn'[e].thread = conn[e].thread /\ (Linked(e)' <=> Linked(e))
                        /\ e # d => conn'[e] = conn[e]
  <2>1. conn[d] \in Connection
    BY <1>1, ClientTypes
  <2>2. \E x : conn' = [conn EXCEPT ![d] = [conn[d] EXCEPT !.down = x]]
    BY <1>2 DEF AnswerPut
  <2>3. QED
    BY <1>1, <2>1, <2>2 DEF NetTypes, Connection, Linked
<1>5. CASE c # d
  <2>1. conn'[c].down = << >> \/ (conn[c].down # << >> /\ Piece(c)'.what = Piece(c).what)
    BY <1>4, <1>5 DEF Piece
  <2>2. QED
    BY <1>1, <1>4, <2>1, ReadFrame
<1>6. CASE c = d
  <2>1. Settled(s, KeyOf[c][cl[c].n + 1])
    <3>1. /\ log[s] \in Seq(Key) /\ Len(log[s]) \in Nat /\ Len(result[s]) = Len(log[s])
          /\ Len(log[s]) # 0
      BY <1>1, <1>3, LenProperties, EmptySeq DEF TypeInv, TypeOK, Lengths
    <3>2. Settled(s, log[s][Len(log[s])])
      BY <3>1 DEF AllSettled
    <3>3. QED
      BY <1>3, <1>6, <3>2
  <2>2. \A t \in Server : \A k :
        /\ Settled(t, k)' <=> Settled(t, k)
        /\ MissedAt(t, k)' <=> MissedAt(t, k)
    BY <1>1 DEF vars, Settled, MissedAt, Accepted, Full
  <2>3. cl'[c] = cl[c] /\ PutKeys(c)' = PutKeys(c) /\ Asked(c)' = Asked(c)
    BY <1>1 DEF PutKeys, Asked
  <2>4. PutReplyAt(c)'
    BY <1>3, <1>4, <1>6, <2>1, <2>2, <2>3 DEF PutReplyAt
  <2>5. GetReplyAt(c)'
    BY <1>3, <1>6, <2>3 DEF GetReplyAt
  <2>6. PutsAt(c)' /\ AskedAt(c)' /\ MissedIn(c)'
    BY <1>4, <2>2, <2>3 DEF ReadInv, PutsAt, AskedAt, MissedIn
  <2>7. QED
    BY <2>4, <2>5, <2>6 DEF ReadInv
<1>7. QED
  BY <1>5, <1>6

(* Gets are answered by what the thread finds.                             *)
LEMMA ReadAnswerGet ==
  ASSUME NetInv, TableInv, NEW s \in Server, NEW c \in Client, ReadOther(s, c),
         ReadInv(c)
  PROVE  ReadInv(c)'
<1>1. /\ NetTypes /\ ClientInv(c) /\ UNCHANGED <<vars, cl>> /\ conn[c] \in Connection
  BY ClientTypes DEF NetInv, ReadOther
<1>2. PICK what \in Seq(BOOLEAN) :
        /\ Asking(c) /\ cl[c].pc \in {"getWait", "scanWait"} /\ server = "up"
        /\ conn[c].thread = s
        /\ Reply(s, Request(c)) = Pieces(Expected(c), what)
        /\ cl[c].pc = "getWait" => what = Found(s, RequestOf(c).keys)
  BY ReplyFacts
<1>3. /\ conn'[c].thread = s /\ conn'[c].down = Pieces(Expected(c), what)
      /\ Linked(c) /\ Linked(c)'
  <2>1. Expected(c) \in Nat /\ Expected(c) > 0
    BY <1>1, <1>2, ExpectedFacts DEF ClientInv, Asking
  <2>2. conn[c].down \o Reply(s, Request(c)) = Pieces(Expected(c), what)
    BY <1>2, <2>1, PieceFacts, ConcatEmptySeq DEF Asking
  <2>3. conn' = [conn EXCEPT ![c] = [conn[c] EXCEPT !.up = Tail(conn[c].up),
                                       !.down = conn[c].down \o Reply(s, Request(c))]]
    BY DEF ReadOther
  <2>4. conn[c].fd = "open" /\ conn[c].state = "open"
    BY <1>1, <1>2 DEF ClientInv, LinkAt
  <2>5. QED
    BY <1>1, <1>2, <2>2, <2>3, <2>4 DEF NetTypes, Connection, Linked
<1>4. Piece(c)'.what = what
  <2>1. /\ Expected(c) \in Nat /\ Expected(c) > 0
    BY <1>1, <1>2, ExpectedFacts DEF ClientInv, Asking
  <2>2. /\ Rest(Expected(c), what, 0) = Pieces(Expected(c), what)
        /\ 0 < PieceCount(Expected(c))
    BY <2>1, RestEnds, CountFacts
  <2>3. /\ conn'[c].down \in Seq(PieceRec) /\ conn'[c].down # << >>
        /\ conn'[c].down[1].what = what
    BY <1>3, <2>1, <2>2, RestFacts
  <2>4. QED
    BY <2>3 DEF Piece
<1>5. \A t \in Server : \A k :
        /\ Settled(t, k)' <=> Settled(t, k)
        /\ MissedAt(t, k)' <=> MissedAt(t, k)
  BY <1>1 DEF vars, Settled, MissedAt, Accepted, Full
<1>6. cl'[c] = cl[c] /\ PutKeys(c)' = PutKeys(c) /\ Asked(c)' = Asked(c)
  BY <1>1 DEF PutKeys, Asked
<1>7. PutReplyAt(c)'
  BY <1>2, <1>6 DEF PutReplyAt
<1>8. GetReplyAt(c)'
  <2> SUFFICES ASSUME NEW k \in Key, NEW i \in 1 .. NumBatch, cl[c].pc = "getWait",
                      k = KeyOf[c][cl[c].n + i], CollisionFree(k)
               PROVE  Settled(s, k)' /\ (~Piece(c)'.what[i] <=> MissedAt(s, k)')
    BY <1>3, <1>6 DEF GetReplyAt
  <2>1. /\ Len(RequestOf(c).keys) = NumBatch /\ RequestOf(c).keys[i] = k
    <3>1. RequestOf(c).keys = SubSeq(KeyOf[c], cl[c].n + 1, cl[c].n + NumBatch)
      BY DEF RequestOf
    <3>2. QED
      BY <1>1, <3>1, GetFacts DEF ClientInv
  <2>2. what[i] <=> Search(s, k) # None
    BY <1>2, <2>1 DEF Found
  <2>3. Settled(s, k)
    <3>1. k \in PutKeys(c)
      <4>1. PICK n \in Nat : n = cl[c].n /\ n + NumBatch <= NumGet
        BY <1>1, GetFacts, ClientTypes DEF ClientInv
      <4>2. n + i \in 1 .. NumPut
        BY <4>1, SizeFacts, SMTT(30)
      <4>3. QED
        BY <4>1, <4>2 DEF PutKeys
    <3>2. QED
      BY <1>2, <1>3, <3>1 DEF ReadInv, PutsAt
  <2>4. Search(s, k) = None <=> MissedAt(s, k)
    BY FoundIs
  <2>5. QED
    BY <1>4, <1>5, <2>2, <2>3, <2>4
<1>9. PutsAt(c)' /\ AskedAt(c)' /\ MissedIn(c)'
  BY <1>2, <1>3, <1>5, <1>6 DEF ReadInv, PutsAt, AskedAt, MissedIn
<1>10. QED
  BY <1>7, <1>8, <1>9 DEF ReadInv

(* Steps that leave the clients, and what is on the way to them, alone.    *)
LEMMA ReadOthers ==
  ASSUME NetInv, TableInv, [Next]_vars, NEW c \in Client, ReadInv(c),
         cl'[c] = cl[c], conn'[c].thread = conn[c].thread, Linked(c)' => Linked(c),
         conn'[c].down = conn[c].down
  PROVE  ReadInv(c)'
<1>1. conn'[c].down = << >> \/ (conn[c].down # << >> /\ Piece(c)'.what = Piece(c).what)
  BY DEF Piece
<1>2. QED
  BY <1>1, ReadFrame

LEMMA ReadServer ==
  ASSUME NetInv, TableInv, [Next]_vars, NEW c \in Client, ReadInv(c),
         \/ \E s \in Server, d \in Client : ReadPut(s, d) \/ Hangup(s, d)
         \/ Stop
         \/ UNCHANGED netVars
  PROVE  ReadInv(c)'
<1>1. NetTypes /\ conn[c] \in Connection /\ ClientInv(c)
  BY ClientTypes DEF NetInv
<1>2. ASSUME NEW s \in Server, NEW d \in Client, ReadPut(s, d) \/ Hangup(s, d)
      PROVE  /\ cl' = cl /\ conn'[c].thread = conn[c].thread
             /\ (Linked(c)' => Linked(c)) /\ conn'[c].down = conn[c].down
  <2>1. conn[d] \in Connection
    BY <1>1, ClientTypes
  <2>2. CASE ReadPut(s, d)
    <3>1. conn' = [conn EXCEPT ![d] = [conn[d] EXCEPT !.up = Tail(conn[d].up)]] /\ cl' = cl
      BY <2>2 DEF ReadPut
    <3>2. QED
      BY <1>1, <2>1, <3>1 DEF NetTypes, Connection, Linked
  <2>3. CASE Hangup(s, d)
    <3>1. conn' = [conn EXCEPT ![d] = [conn[d] EXCEPT !.state = "none"]] /\ cl' = cl
      BY <2>3 DEF Hangup
    <3>2. QED
      BY <1>1, <2>1, <3>1 DEF NetTypes, Connection, Linked
  <2>4. QED
    BY <1>2, <2>2, <2>3
<1>3. ASSUME Stop
      PROVE  /\ cl' = cl /\ conn'[c].thread = conn[c].thread
             /\ (Linked(c)' => Linked(c)) /\ conn'[c].down = conn[c].down
  <2>1. PICK st : conn'[c] = IF conn[c].state = "open"
                             THEN [conn[c] EXCEPT !.state = st, !.up = << >>]
                             ELSE conn[c]
    BY <1>3 DEF Stop
  <2>2. cl' = cl
    BY <1>3 DEF Stop
  <2>3. QED
    BY <1>1, <2>1, <2>2 DEF Connection, Linked
<1>4. ASSUME UNCHANGED netVars
      PROVE  /\ cl' = cl /\ conn'[c].thread = conn[c].thread
             /\ (Linked(c)' => Linked(c)) /\ conn'[c].down = conn[c].down
  BY <1>4 DEF netVars, Linked
<1>5. QED
  BY <1>2, <1>3, <1>4, ReadOthers

-----------------------------------------------------------------------------
ReadYourInv ==
  /\ NetInv /\ TableInv /\ AllSettled
  /\ \A c \in Client : ReadInv(c)

LEMMA ReadInit == NetInit => ReadYourInv
<1> SUFFICES ASSUME NetInit PROVE ReadYourInv
  OBVIOUS
<1>1. NetInv /\ Init
  BY NetInit0 DEF NetInit
<1>2. TableInv /\ AllSettled
  BY <1>1, TypeInit, TableInit DEF Init, TableInv, OlderFirst, Used, AllSettled
<1>3. ASSUME NEW c \in Client PROVE ReadInv(c)
  <2>1. cl[c].pc = "new" /\ cl[c].missed = {}
    BY DEF NetInit
  <2>2. PutKeys(c) = {} /\ Asked(c) = {}
    BY <2>1 DEF PutKeys, Asked
  <2>3. QED
    BY <2>1, <2>2 DEF ReadInv, PutsAt, PutReplyAt, GetReplyAt, AskedAt, MissedIn
<1>4. QED
  BY <1>1, <1>2, <1>3 DEF ReadYourInv

(* The step of one client leaves what the others know.                     *)
LEMMA ReadClients ==
  ASSUME ReadYourInv, NEW c \in Client, ClientStep(c), NEW d \in Client
  PROVE  ReadInv(d)'
<1>1. NetInv /\ TableInv /\ NetTypes /\ ReadInv(c) /\ ReadInv(d)
  BY DEF ReadYourInv, NetInv
<1>2. CASE ConnectFails(c) \/ SendFails(c)
  <2>1. cl'[d].pc = "exit"
    <3>1. cl' = [e \in Client |-> [cl[e] EXCEPT !.pc = "exit"]] /\ cl[d] \in ClientRec
      BY <1>1, <1>2, ClientTypes DEF ConnectFails, SendFails
    <3>2. QED
      BY <3>1 DEF ClientRec
  <2>2. QED
    BY <2>1, ReadExit
<1>3. CASE ~(ConnectFails(c) \/ SendFails(c)) /\ d # c
  <2>1. UNCHANGED vars
    BY <1>3 DEF ClientStep, Connect, SendPut, SendGet, SendScan, Write,
         TakePutReply, TakeValues, Take, EndOfStream, ReadError
  <2>2. \E r : cl' = [cl EXCEPT ![c] = r]
    <3>1. cl = [cl EXCEPT ![c] = cl[c]]
      BY <1>1 DEF NetTypes
    <3>2. QED
      BY <1>3, <3>1 DEF ClientStep, Connect, SendPut, SendGet, SendScan,
         TakePutReply, TakeValues, EndOfStream, ReadError
  <2>3. conn'[d] = conn[d]
    <3>1. ASSUME NEW len, NEW keys, Write(c, len, keys) PROVE conn'[d] = conn[d]
      BY <1>1, <1>3, <3>1 DEF Write, NetTypes
    <3>2. ASSUME NEW max, Take(c, max) PROVE conn'[d] = conn[d]
      BY <1>1, <1>3, <3>2 DEF Take, NetTypes
    <3>3. ASSUME NEW s \in Server, Connect(c, s) PROVE conn'[d] = conn[d]
      BY <1>1, <1>3, <3>3 DEF Connect, NetTypes
    <3>4. CASE EndOfStream(c) \/ ReadError(c)
      BY <1>1, <1>3, <3>4 DEF EndOfStream, ReadError, NetTypes
    <3>5. QED
      BY <1>3, <3>1, <3>2, <3>3, <3>4 DEF ClientStep, SendPut, SendGet, SendScan,
         TakePutReply, TakeValues
  <2>4. cl'[d] = cl[d] /\ conn'[d] = conn[d]
    BY <1>1, <1>3, <2>2, <2>3 DEF NetTypes
  <2>5. (Linked(d)' <=> Linked(d)) /\ conn'[d].thread = conn[d].thread
        /\ conn'[d].down = conn[d].down
    BY <2>4 DEF Linked
  <2>6. QED
    BY <1>1, <2>1, <2>4, <2>5, ReadOthers
<1>4. CASE ~(ConnectFails(c) \/ SendFails(c)) /\ d = c
  BY <1>1, <1>4, ReadConnect, ReadSend, ReadTakePut, ReadTakeValues, ReadEnds DEF ClientStep
<1>5. QED
  BY <1>2, <1>3, <1>4

LEMMA ReadStep == ReadYourInv /\ [NetNext]_allVars => ReadYourInv'
<1> SUFFICES ASSUME ReadYourInv, [NetNext]_allVars PROVE ReadYourInv'
  OBVIOUS
<1>1. /\ NetInv /\ TableInv /\ AllSettled /\ [Next]_vars
      /\ \A c \in Client : ReadInv(c)
  BY EngineStep DEF ReadYourInv
<1>2. NetInv' /\ AllSettled'
  BY <1>1, NetStep, AllSettledStep
<1>3. TableInv'
  BY <1>1, TypeStep, TableStep, OlderStep DEF TableInv
<1>4. ASSUME NEW c \in Client PROVE ReadInv(c)'
  <2>1. ASSUME NEW d \in Client, ClientStep(d) PROVE ReadInv(c)'
    BY <2>1, ReadClients
  <2>2. ASSUME NEW s \in Server, NEW d \in Client, ReadOther(s, d) PROVE ReadInv(c)'
    <3>1. CASE d = c
      BY <1>1, <2>2, <3>1, ReadAnswerGet
    <3>2. CASE d # c
      <4>1. \E k : conn' = [conn EXCEPT ![d] = k]
        BY <2>2 DEF ReadOther
      <4>2. cl'[c] = cl[c] /\ conn'[c] = conn[c]
        BY <1>1, <2>2, <3>2, <4>1 DEF ReadOther, NetInv, NetTypes
      <4>3. /\ conn'[c].thread = conn[c].thread /\ conn'[c].down = conn[c].down
            /\ (Linked(c)' <=> Linked(c))
        BY <4>2 DEF Linked
      <4>4. QED
        BY <1>1, <4>2, <4>3, ReadOthers
    <3>3. QED
      BY <3>1, <3>2
  <2>3. ASSUME NEW s \in Server, AnswerPut(s) PROVE ReadInv(c)'
    BY <1>1, <2>3, ReadAnswerPut
  <2>4. CASE \/ \E s \in Server, d \in Client : ReadPut(s, d) \/ Hangup(s, d)
             \/ Stop
             \/ UNCHANGED netVars
    BY <1>1, <2>4, ReadServer
  <2>5. QED
    BY <2>1, <2>2, <2>3, <2>4 DEF NetNext, ThreadStep, Inserting, Indexing, allVars
<1>5. QED
  BY <1>2, <1>3, <1>4 DEF ReadYourInv

(* A client's get misses a key it has put only when the hash table had no  *)
(* slot for the key or the key's oldest record is the first of its         *)
(* partition, whatever other clients put in between (server.cc read_cb,    *)
(* hikv.h search).                                                         *)
THEOREM ClientsReadTheirPuts == NetSpec => []ReadYourPuts
<1>1. ReadYourInv => ReadYourPuts
  <2> SUFFICES ASSUME ReadYourInv, NEW c \in Client, NEW k \in Asked(c), CollisionFree(k)
               PROVE  k \in cl[c].missed <=> MissedAt(conn[c].thread, k)
    BY DEF ReadYourPuts, MissedAt
  <2>1. NetTypes /\ LinkAt(c) /\ AskedAt(c)
    BY DEF ReadYourInv, ReadInv, NetInv, ClientInv
  <2>2. cl[c].pc \notin {"new", "exit"}
    BY DEF Asked
  <2>3. PICK s \in Server : s = conn[c].thread
    BY <2>1, <2>2 DEF LinkAt
  <2>4. QED
    BY <2>1, <2>3 DEF AskedAt
<1>2. QED
  BY <1>1, ReadInit, ReadStep, PTL DEF NetSpec

(* What the clients talk to is the engine: nothing they send, in any order *)
(* and on any connection, nor the end of the server brings a partition     *)
(* where HiKV alone could not bring it (server.cc read_cb, hikv.h insert). *)
THEOREM ServerRunsEngine == NetSpec => Spec
<1>1. NetInit => Init
  BY DEF NetInit
<1>2. QED
  BY <1>1, NetInvariant, EngineStep, PTL DEF NetSpec, Spec

(* So the server's gets are the readings of a write-once store, and its    *)
(* scans see a growing prefix of each partition's puts (server.cc read_cb, *)
(* hikv.h search, threadpool.cc).                                          *)
THEOREM ServerRunsStore == NetSpec => ImplementsStore
  BY ServerRunsEngine, StoreImplemented
=============================================================================
