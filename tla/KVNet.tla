-------------------------------- MODULE KVNet --------------------------------
(***************************************************************************)
(* HiKV behind its TCP server (server.cc) and the clients that measure it  *)
(* (client.cc, __TEST_KV__ with BATCHED_KEY).  A client has one connection *)
(* and one request under way: first its puts, then its gets, then its      *)
(* scans.  A server thread is an event loop that runs one callback at a    *)
(* time, and uses its own number as the number of the partition.  It tells *)
(* requests apart by their length only.  SIGINT ends the server.           *)
(***************************************************************************)
EXTENDS HiKV

CONSTANTS
  Client,     \* the client threads, all of one process
  KeyOf,      \* KeyOf[c][i]: key_corpus[i - 1] of client c
  NumPut, NumGet, NumScan,  \* the requests of each client
  ScanRange,  \* scan_range of client and server
  NumBatch,   \* NUM_BATCH, the keys of one get request
  Mss         \* the bytes that travel in one piece

KeySize   == 64
ValueSize == 256
ReplySize == 50
ItemSize  == KeySize + ValueSize

Nobody == "nobody"

(* Requests travel in one piece; replies need not.  With batches of two or *)
(* five keys a request of gets would have the length of a scan or a put,   *)
(* and a last, shorter batch is not answered at all (NUM_BATCH is 1).      *)
ASSUME NetAssumption ==
  /\ NumPut \in Nat \ {0} /\ NumGet \in 1 .. NumPut /\ NumScan \in Nat \ {0}
  /\ ScanRange \in Nat /\ ScanRange >= 2
  /\ NumBatch \in Nat \ {0, 2, 5}
  /\ \E n \in 1 .. NumGet : NumGet = n * NumBatch
  /\ Mss \in Nat /\ Mss >= ItemSize /\ Mss >= NumBatch * KeySize
  /\ KeyOf \in [Client -> [1 .. NumPut -> Key]]
  /\ Nobody \notin Client

VARIABLES
  server,   \* "up", or "down" after SIGINT
  serving,  \* serving[s]: the client whose put thread s is inserting
  conn,     \* conn[c]: the connection of c, both directions
  cl        \* cl[c]: where client c is, and its registers

netVars == <<server, serving, conn, cl>>
allVars == <<vars, netVars>>

NetInit ==
  /\ Init
  /\ server = "up"
  /\ serving = [s \in Server |-> Nobody]
  /\ conn = [c \in Client |-> [thread |-> None, state |-> "none", fd |-> "open",
                               up |-> << >>, down |-> << >>]]
  /\ cl = [c \in Client |-> [pc |-> "new", n |-> 0, tot |-> 0, ins |-> 0,
                             missed |-> {}, scans |-> 0]]

-----------------------------------------------------------------------------
(* The client.  Its place after n requests of a phase.                     *)
AfterPut(n)  == IF n < NumPut THEN <<"put", n>> ELSE <<"get", 0>>
AfterGetLate(n) == IF n <= NumGet THEN <<"get", n>> ELSE <<"scan", 0>>  \* mistake: one too many
AfterGet(n)  == IF n < NumGet THEN <<"get", n>> ELSE <<"scan", 0>>
AfterScan(n) == IF n < NumScan THEN <<"scan", n>> ELSE <<"done", n>>

Placed(c, place) == [cl[c] EXCEPT !.pc = place[1], !.n = place[2], !.tot = 0]

Waiting(c) == cl[c].pc \in {"putWait", "getWait", "scanWait"}

(* Any thread that listens may be given the connection.                    *)
Connect(c, s) ==
  /\ server = "up" /\ cl[c].pc = "new"
  /\ conn' = [conn EXCEPT ![c].thread = s, ![c].state = "open"]
  /\ cl' = [cl EXCEPT ![c].pc = "put"]
  /\ UNCHANGED <<vars, server, serving>>

(* When nobody listens any more, connect fails and ends the client process.*)
ConnectFails(c) ==
  /\ server = "down" /\ cl[c].pc = "new"
  /\ cl' = [d \in Client |-> [cl[d] EXCEPT !.pc = "exit"]]
  /\ UNCHANGED <<vars, server, serving, conn>>

(* write to the socket: it also succeeds on a connection the server has    *)
(* closed; the answer to that is a reset, now or later.                    *)
Write(c, len, keys) ==
  /\ conn[c].fd = "open"
  /\ \/ /\ conn[c].state = "open"
        /\ conn' = [conn EXCEPT ![c].up = Append(@, [len |-> len, keys |-> keys])]
     \/ /\ conn[c].state = "fin"
        /\ \E st \in {"fin", "dead"} : conn' = [conn EXCEPT ![c].state = st]
  /\ UNCHANGED <<vars, server, serving>>

SendPut(c) ==
  /\ cl[c].pc = "put"
  /\ Write(c, ItemSize, << KeyOf[c][cl[c].n + 1] >>)
  /\ cl' = [cl EXCEPT ![c].pc = "putWait"]

(* The last batch of gets may be a shorter one.                            *)
Batch(c) == IF NumGet - cl[c].n < NumBatch THEN NumGet - cl[c].n ELSE NumBatch

SendGet(c) ==
  /\ cl[c].pc = "get"
  /\ Write(c, Batch(c) * KeySize, SubSeq(KeyOf[c], cl[c].n + 1, cl[c].n + Batch(c)))
  /\ cl' = [cl EXCEPT ![c].pc = "getWait"]

SendScan(c) ==
  /\ cl[c].pc = "scan"
  /\ Write(c, 2 * KeySize, << KeyOf[c][1], KeyOf[c][1] >>)
  /\ cl' = [cl EXCEPT ![c].pc = "scanWait"]

(* A write that fails, or the SIGPIPE that comes with it, ends the client  *)
(* process and all its threads.                                            *)
SendFails(c) ==
  /\ cl[c].pc \in {"put", "get", "scan"}
  /\ conn[c].fd = "closed" \/ conn[c].state \in {"rst", "dead"}
  /\ cl' = [d \in Client |-> [cl[d] EXCEPT !.pc = "exit"]]
  /\ UNCHANGED <<vars, server, serving, conn>>

(* read of at most max bytes: it takes from the piece that comes next.     *)
Piece(c) == Head(conn[c].down)

Size(c, max) == IF Piece(c).len < max THEN Piece(c).len ELSE max

Take(c, max) ==
  /\ conn[c].down # << >>
  /\ conn' = [conn EXCEPT ![c].down =
       IF Piece(c).len <= max THEN Tail(@)
       ELSE << [Piece(c) EXCEPT !.len = @ - max] >> \o Tail(@)]
  /\ UNCHANGED <<vars, server, serving>>

(* A put's reply is read once.                                             *)
TakePutReply(c) ==
  /\ cl[c].pc = "putWait"
  /\ Take(c, ReplySize)
  /\ cl' = [cl EXCEPT ![c] =
       [Placed(c, AfterPut(cl[c].n + 1)) EXCEPT
          !.ins = IF Piece(c).what = <<TRUE>> THEN @ + 1 ELSE @]]

(* Gets are read until all values are there; scans too, but a read asks    *)
(* for one value more than the reply has.                                  *)
Expected(c) == IF cl[c].pc = "getWait" THEN Batch(c) * ValueSize
               ELSE IF cl[c].pc = "scanWait" THEN (ScanRange - 1) * ValueSize
               ELSE ReplySize

TakeValues(c) ==
  LET max == (IF cl[c].pc = "getWait" THEN Batch(c) ELSE ScanRange) * ValueSize
                - cl[c].tot
      got == cl[c].tot + Size(c, max)
      last == cl[c].n + Batch(c)
  IN
  /\ cl[c].pc \in {"getWait", "scanWait"} /\ cl[c].tot >= 0
  /\ Take(c, max)
  /\ cl' = [cl EXCEPT ![c] =
       IF got < Expected(c) THEN [@ EXCEPT !.tot = got]
       ELSE IF @.pc = "getWait"
       THEN [Placed(c, AfterGet(last)) EXCEPT
               !.missed = @ \cup {KeyOf[c][cl[c].n + i] :
                            i \in {j \in 1 .. Batch(c) : ~Piece(c).what[j]}}]
       ELSE [Placed(c, AfterScan(cl[c].n + 1)) EXCEPT !.scans = @ + 1]]

(* read returns 0 at the end of the stream, after all that was sent: the   *)
(* client closes its socket.  The put is not repeated; the other loops go  *)
(* on reading.                                                             *)
EndOfStream(c) ==
  /\ Waiting(c)
  /\ conn[c].state \in {"fin", "dead"} /\ conn[c].fd = "open" /\ conn[c].down = << >>
  /\ conn' = [conn EXCEPT ![c].fd = "closed"]
  /\ cl' = IF cl[c].pc = "putWait"
           THEN [cl EXCEPT ![c] = Placed(c, AfterPut(cl[c].n + 1))]
           ELSE cl
  /\ UNCHANGED <<vars, server, serving>>

(* read returns -1, once for a reset and always for a closed socket, and   *)
(* the loops add it to the bytes they have.  The loop of gets compares     *)
(* signed numbers and goes on; the loop of scans compares with the         *)
(* unsigned scan_range and ends when the sum is negative.  (A sum below    *)
(* zero stays there: the model keeps it at -1.)                            *)
ReadErrorSigned(c) ==  \* mistake: no unsigned comparison, scans go on as well
  LET sum == IF cl[c].tot < 0 THEN -1 ELSE cl[c].tot - 1 IN
  /\ Waiting(c)
  /\ conn[c].fd = "closed" \/ (conn[c].state = "rst" /\ conn[c].down = << >>)
  /\ conn' = IF conn[c].fd = "open" THEN [conn EXCEPT ![c].state = "dead"] ELSE conn
  /\ cl' = [cl EXCEPT ![c] =
       IF @.pc = "putWait" THEN Placed(c, AfterPut(@.n + 1))
       ELSE [@ EXCEPT !.tot = sum]]
  /\ UNCHANGED <<vars, server, serving>>

ReadError(c) ==
  LET sum == IF cl[c].tot < 0 THEN -1 ELSE cl[c].tot - 1 IN
  /\ Waiting(c)
  /\ conn[c].fd = "closed" \/ (conn[c].state = "rst" /\ conn[c].down = << >>)
  /\ conn' = IF conn[c].fd = "open" THEN [conn EXCEPT ![c].state = "dead"] ELSE conn
  /\ cl' = [cl EXCEPT ![c] =
       IF @.pc = "putWait" THEN Placed(c, AfterPut(@.n + 1))
       ELSE IF @.pc = "scanWait" /\ sum < 0
       THEN [Placed(c, AfterScan(cl[c].n + 1)) EXCEPT !.scans = @ + 1]
       ELSE [@ EXCEPT !.tot = sum]]
  /\ UNCHANGED <<vars, server, serving>>

ClientStep(c) ==
  \/ \E s \in Server : Connect(c, s)
  \/ ConnectFails(c)
  \/ SendPut(c) \/ SendGet(c) \/ SendScan(c) \/ SendFails(c)
  \/ TakePutReply(c) \/ TakeValues(c) \/ EndOfStream(c) \/ ReadError(c)

-----------------------------------------------------------------------------
(* The server.  A reply travels in pieces of at most Mss bytes.            *)
Pieces(len, what) ==
  [i \in 1 .. (len + Mss - 1) \div Mss |->
     [len |-> IF i * Mss <= len THEN Mss ELSE len - (i - 1) * Mss, what |-> what]]

Found0(s, keys) == [i \in 1 .. Len(keys) |-> Search(0, keys[i]) # None]  \* mistake: one partition for all

Found(s, keys) == [i \in 1 .. Len(keys) |-> Search(s, keys[i]) # None]

Request(c) == Head(conn[c].up)

MayRead(s, c) ==
  /\ server = "up" /\ serving[s] = Nobody
  /\ conn[c].thread = s /\ conn[c].state = "open" /\ conn[c].up # << >>

(* read_cb, a put: the thread is in hikv::insert until that returns ...    *)
ReadPut(s, c) ==
  /\ MayRead(s, c) /\ Request(c).len = ItemSize
  /\ AppendLog(s, Request(c).keys[1])
  /\ serving' = [serving EXCEPT ![s] = c]
  /\ conn' = [conn EXCEPT ![c].up = Tail(@)]
  /\ UNCHANGED <<server, cl>>

(* ... and then tells the client what it has returned.                     *)
AnswerPutItem(s) ==  \* mistake: the reply has the size of the request
  LET c == serving[s] IN
  /\ server = "up" /\ c # Nobody /\ pc[s] = "idle"
  /\ conn' = [conn EXCEPT ![c].down =
                @ \o Pieces(ItemSize, <<result[s][Len(result[s])]>>)]
  /\ serving' = [serving EXCEPT ![s] = Nobody]
  /\ UNCHANGED <<vars, server, cl>>

AnswerPut(s) ==
  LET c == serving[s] IN
  /\ server = "up" /\ c # Nobody /\ pc[s] = "idle"
  /\ conn' = [conn EXCEPT ![c].down =
                @ \o Pieces(ReplySize, <<result[s][Len(result[s])]>>)]
  /\ serving' = [serving EXCEPT ![s] = Nobody]
  /\ UNCHANGED <<vars, server, cl>>

(* read_cb, the other requests: gets have a value or "get failed" for each *)
(* key, scans a fixed number of values, of which the client looks at none. *)
ReplyShort(s, r) ==  \* mistake: as without BATCHED_KEY, a short reply to a failed get
  IF r.len = NumBatch * KeySize
  THEN IF Found(s, r.keys) = <<FALSE>> THEN Pieces(ReplySize, Found(s, r.keys))
       ELSE Pieces(Len(r.keys) * ValueSize, Found(s, r.keys))
  ELSE IF r.len = 2 * KeySize
  THEN Pieces((ScanRange - 1) * ValueSize, << >>)
  ELSE << >>

Reply(s, r) ==
  IF r.len = NumBatch * KeySize
  THEN Pieces(Len(r.keys) * ValueSize, Found(s, r.keys))
  ELSE IF r.len = 2 * KeySize
  THEN Pieces((ScanRange - 1) * ValueSize, << >>)
  ELSE << >>

ReadOther(s, c) ==
  /\ MayRead(s, c) /\ Request(c).len # ItemSize
  /\ conn' = [conn EXCEPT ![c].up = Tail(@), ![c].down = @ \o Reply(s, Request(c))]
  /\ UNCHANGED <<vars, server, serving, cl>>

(* event_cb: the client has closed its socket, the bufferevent is freed.   *)
Hangup(s, c) ==
  /\ server = "up" /\ serving[s] = Nobody
  /\ conn[c].thread = s /\ conn[c].state = "open" /\ cl[c].pc = "done"
  /\ conn' = [conn EXCEPT ![c].state = "none"]
  /\ UNCHANGED <<vars, server, serving, cl>>

(* The thread goes on in hikv::insert.                                     *)
Inserting(s) == server = "up" /\ ServerStep(s) /\ UNCHANGED netVars

Indexing(b) == server = "up" /\ BackendStep(b) /\ UNCHANGED netVars

ThreadStep(s) ==
  \/ \E c \in Client : ReadPut(s, c) \/ ReadOther(s, c) \/ Hangup(s, c)
  \/ Inserting(s) \/ AnswerPut(s)

(* signal_cb, in a thread that is in its event loop: exit(0), whatever the *)
(* other threads are doing.  The kernel closes the connections; one with a *)
(* request nobody has read is reset.                                       *)
Stop ==
  /\ server = "up" /\ \E s \in Server : serving[s] = Nobody
  /\ server' = "down"
  /\ \E st \in [Client -> {"fin", "rst"}] :
       /\ \A c \in Client : st[c] = "rst" => conn[c].up # << >>
       /\ conn' = [c \in Client |->
            IF conn[c].state = "open"
            THEN [conn[c] EXCEPT !.state = st[c], !.up = << >>]
            ELSE conn[c]]
  /\ UNCHANGED <<vars, serving, cl>>

NetNext ==
  \/ \E c \in Client : ClientStep(c)
  \/ \E s \in Server : ThreadStep(s)
  \/ \E b \in Drained : Indexing(b)
  \/ Stop

NetSpec == NetInit /\ [][NetNext]_allVars

(* Client threads, server threads and backend threads go on as long as     *)
(* their processes live.  The server need not be stopped.                  *)
NetFairness ==
  /\ \A c \in Client : WF_allVars(ClientStep(c))
  /\ \A s \in Server : WF_allVars(ThreadStep(s))
  /\ \A b \in Drained : WF_allVars(Indexing(b))

NetFairSpec == NetSpec /\ NetFairness

-----------------------------------------------------------------------------
(* Types; in particular no client asks for more than it was told to.       *)
NetTypeOK ==
  /\ server \in {"up", "down"}
  /\ serving \in [Server -> Client \cup {Nobody}]
  /\ \A c \in Client :
       /\ conn[c].thread \in Server \cup {None}
       /\ conn[c].state \in {"none", "open", "fin", "rst", "dead"}
       /\ conn[c].fd \in {"open", "closed"}
       /\ cl[c].pc \in {"new", "put", "putWait", "get", "getWait", "scan",
                        "scanWait", "done", "exit"}
       /\ cl[c].pc \in {"put", "putWait"} => cl[c].n < NumPut
       /\ cl[c].pc \in {"get", "getWait"} => cl[c].n < NumGet
       /\ cl[c].tot >= -1 /\ (Waiting(c) => cl[c].tot < Expected(c))
       /\ cl[c].ins \in 0 .. NumPut /\ cl[c].scans \in 0 .. NumScan
       /\ cl[c].missed \subseteq Key

(* The pieces of its reply the client has not read yet are on the way.     *)
RestComes(c) ==
  LET reply == Pieces(Expected(c), conn[c].down[1].what) IN
  \E n \in 0 .. cl[c].tot :
    /\ cl[c].tot = n * Mss
    /\ conn[c].down = SubSeq(reply, n + 1, Len(reply))

Served(c) == \E s \in Server : serving[s] = c

(* Client and server stay in step: while the server is up, a client that   *)
(* waits has its request on the way, or with its thread, or exactly the    *)
(* rest of one reply on the way back, and a client that does not wait has  *)
(* none of these.  So no read takes a part of another reply and no read_cb *)
(* finds two requests, although neither side marks where a message ends    *)
(* (server.cc read_cb, client.cc send_request).                            *)
InStep ==
  server = "up" => \A c \in Client :
    \/ /\ ~Waiting(c) /\ ~Served(c)
       /\ conn[c].up = << >> /\ conn[c].down = << >>
    \/ /\ Waiting(c) /\ ~Served(c) /\ cl[c].tot = 0
       /\ Len(conn[c].up) = 1 /\ conn[c].down = << >>
    \/ /\ Waiting(c) /\ Served(c) /\ cl[c].tot = 0
       /\ conn[c].up = << >> /\ conn[c].down = << >>
    \/ /\ Waiting(c) /\ ~Served(c)
       /\ conn[c].up = << >> /\ conn[c].down # << >> /\ RestComes(c)

(* The keys whose gets client c has finished.                              *)
Asked(c) ==
  LET n == IF cl[c].pc \in {"new", "put", "putWait"} THEN 0
           ELSE IF cl[c].pc \in {"get", "getWait"} THEN cl[c].n
           ELSE IF cl[c].pc = "exit" THEN 0 ELSE NumGet
  IN  {KeyOf[c][i] : i \in 1 .. n}

(* A client's get misses one of the keys it has put in two cases only:     *)
(* the hash table of its thread had no slot for the key, or the key's      *)
(* oldest record is the first of that thread's partition.  It holds        *)
(* whatever other clients of the thread put in between (server.cc read_cb, *)
(* hikv.h search), for keys whose hashes do not collide.                   *)
ReadYourPuts ==
  \A c \in Client : \A k \in Asked(c) : CollisionFree(k) =>
    (k \in cl[c].missed <=>
       \/ Accepted(conn[c].thread, k) = {}
       \/ 0 \in Accepted(conn[c].thread, k))

(* Unless the server is stopped, every client gets all its answers and     *)
(* ends (client.cc send_request).                                          *)
ClientsEnd == <>(server = "down" \/ \A c \in Client : cl[c].pc = "done")

(* The end of the server ends the clients, too, except those that wait for *)
(* the values of gets: a client that asks for records or scans leaves its  *)
(* loop, ends, or is ended by a failing write.  The loop of gets closes    *)
(* its socket and reads on (client.cc send_request).                       *)
OnlyGetsHang ==
  server = "down" ~> \A c \in Client : cl[c].pc \in {"done", "exit", "getWait"}

=============================================================================
